---- MODULE Spec2Model ----
(***************************************************************************)
(* Model of package summon (src/summon.go lines 1-101): the Task type, the *)
(* Serial and Parallel composers and the Run driver.                        *)
(*                                                                         *)
(* A run works on a tree of Tasks.  Node 1 is the Task handed to the       *)
(* driver.  A leaf is a Task built by a caller: its Do and Defer are       *)
(* opaque functions that are either nil or, when invoked, run for a while  *)
(* and return nil or an error of their own.  A composite is the Task that  *)
(* Serial(...) or Parallel(...) returns: its Do and Defer are the closures *)
(* of lines 24-50 and 58-77, and `defers` is the slice they capture.       *)
(*                                                                         *)
(* The second half models the flat-list driver of the command (package     *)
(* main, src/summon.go lines 115-127 and 223-250) together with the        *)
(* process wrapper run(cmd, kill) of src/system/system.go lines 1069-1103  *)
(* that every step's Do and Defer blocks in.                               *)
(***************************************************************************)
EXTENDS Integers, Sequences, FiniteSets, TLC

\* Largest number of units handed to one Serial(...) or Parallel(...) call.
MaxUnits == 3

VARIABLES
    task,        \* the Task tree: node -> [kind, kids, hasDo, hasDefer]
    driver,      \* who drives node 1: "Run" (summon.Run) or "Client"
    ctx,         \* the context.Context the driver was given
    ctxDone,     \* whether that context has been cancelled
    runs,        \* how many times the driver has been given node 1
    pc,          \* position of the driver
    result,      \* the error the driver got back (Run's return value)
    doSt,        \* node -> state of the invocation of its Do
    doRes,       \* node -> error its Do returned
    doCalls,     \* node -> number of times its Do was invoked
    doCtx,       \* node -> the context its Do was invoked with
    dfSt,        \* node -> state of the invocation of its Defer
    dfRes,       \* node -> error its Defer returned
    dfCalls,     \* node -> number of times its Defer was invoked
    dfCtx,       \* node -> the context its Defer was invoked with
    defers,      \* composite -> the captured slice `defers` (kids, by node)
    doIdx,       \* composite -> position of the range loop of its Do
    dfIdx,       \* composite -> position of the range loop of its Defer
    doWk,        \* Parallel -> state of the goroutine of each unit's Do
    dfWk,        \* Parallel -> state of the goroutine of each queued Defer
    egDo,        \* Parallel -> the errgroup.Group of its Do
    egDf,        \* Parallel -> the errgroup.Group of its Defer
    multiErrors, \* Serial -> the slice multiErrors of its Defer
    steps,       \* flat driver: the list of Steps handed to run(steps)
    fpc,         \* flat driver: position of the goroutine that called run
    fres,        \* flat driver: the error run(steps) returned
    sig,         \* flat driver: number of signals buffered in channel sig
    interrupts,  \* flat driver: SIGINTs the operator has sent so far
    closes,      \* flat driver: number of close(kill) executed
    worker,      \* flat driver: the goroutine of lines 228-238
    w,           \* the running call of the process wrapper run(cmd, kill)
    hist,        \* step -> what happened to its Do and its Defer
    dfOrder,     \* steps in the order in which their Defer was invoked
    logged,      \* errors LoggedDefer printed to os.Stderr, in order
    vfs,         \* system: the calls of VirtualFS.Mount / VirtualFS.Umount
    gpt          \* system: the call of Config.GptSetup

taskVars == <<task, driver, ctx, ctxDone, runs, pc, result, doSt, doRes, doCalls, doCtx,
              dfSt, dfRes, dfCalls, dfCtx, defers, doIdx, dfIdx, doWk, dfWk,
              egDo, egDf, multiErrors>>

flatVars == <<steps, fpc, fres, sig, interrupts, closes, worker, w, hist,
              dfOrder, logged>>

sysVars == <<vfs, gpt>>

vars == <<taskVars, flatVars, sysVars>>

treeVars == <<task, driver, ctx>>
envVars == <<ctxDone, runs>>
doVars == <<doSt, doRes, doCalls, doCtx, doIdx, doWk, egDo>>
dfVars == <<dfSt, dfRes, dfCalls, dfCtx, dfIdx, dfWk, egDf, multiErrors>>

----------------------------------------------------------------------------
\* Error values.

NilErr == [tag |-> "nil", ph |-> "", id |-> 0, errs |-> <<>>]

\* The error that unit n's own Do (ph = "do") or Defer (ph = "defer") returns.
UnitErr(ph, n) == [tag |-> "err", ph |-> ph, id |-> n, errs |-> <<>>]

\* errgroup.MultiError: a slice of two or more errors.
MultiError(es) == [tag |-> "multi", ph |-> "", id |-> 0, errs |-> es]

RECURSIVE NonNil(_)
NonNil(es) ==
    IF es = <<>> THEN <<>>
    ELSE IF Head(es) = NilErr THEN NonNil(Tail(es))
    ELSE <<Head(es)>> \o NonNil(Tail(es))

\* errgroup.NewMultiError: nil errors are dropped; nothing left is nil, one
\* error left is that error, several are a MultiError holding all of them.
NewMultiError(es) ==
    LET multiErr == NonNil(es) IN
    IF Len(multiErr) = 1 THEN multiErr[1]
    ELSE IF Len(multiErr) > 1 THEN MultiError(multiErr)
    ELSE NilErr

\* errgroup.Group (github.com/daaku/errgroup, a dependency of the package):
\* a sync.WaitGroup and the errors recorded so far.  Its code is not part
\* of the repository; Add, Done and Wait are taken to be those of the
\* WaitGroup, Error to record a non-nil error and to do nothing for nil
\* (Parallel passes every result of a unit to it, nil included, line 31),
\* and Wait to return NewMultiError of the recorded errors.
EgZero == [cnt |-> 0, errs |-> <<>>]

\* Group.Error(e): records e unless it is nil.
EgError(eg, e) == IF e = NilErr THEN eg ELSE [eg EXCEPT !.errs = Append(@, e)]

\* Group.Done().
EgDone(eg) == [eg EXCEPT !.cnt = @ - 1]

\* Group.Add(delta).
EgAdd(eg, delta) == [eg EXCEPT !.cnt = @ + delta]

\* Group.Wait() may return once the counter is zero; it returns
\* NewMultiError of the recorded errors.
EgWaitReady(eg) == eg.cnt = 0
EgWaitResult(eg) == NewMultiError(eg.errs)

----------------------------------------------------------------------------
\* The Task tree.

Leaf(d, f) == [kind |-> "leaf", kids |-> <<>>, hasDo |-> d, hasDefer |-> f]

\* The Task returned by Serial or Parallel: Do and Defer are both set.
Composite(k, kids) == [kind |-> k, kids |-> kids, hasDo |-> TRUE, hasDefer |-> TRUE]

Leaves == {Leaf(d, f) : d \in BOOLEAN, f \in BOOLEAN}
Kinds == {"serial", "parallel"}

\* A bare Task handed to the driver.
BareTrees == {<<l>> : l \in Leaves}

\* Serial(u1..uk) or Parallel(u1..uk) of leaves, 0 <= k <= MaxUnits.
FlatTrees ==
    UNION {{<<Composite(k, [i \in 1..u |-> i + 1])>> \o ls : ls \in [1..u -> Leaves]}
           : k \in Kinds, u \in 0..MaxUnits}

\* A composite of two leaves nested as the first or the second unit of a
\* composite of two units.
NestedTrees ==
    {<<Composite(k1, <<2, 3>>), Composite(k2, <<4, 5>>), l1, l2, l3>>
        : k1 \in Kinds, k2 \in Kinds, l1 \in Leaves, l2 \in Leaves, l3 \in Leaves}
    \cup
    {<<Composite(k1, <<2, 3>>), l1, Composite(k2, <<4, 5>>), l2, l3>>
        : k1 \in Kinds, k2 \in Kinds, l1 \in Leaves, l2 \in Leaves, l3 \in Leaves}

Trees == BareTrees \cup FlatTrees \cup NestedTrees

Nodes == DOMAIN task
Root == 1
Kids(p) == task[p].kids
NKids(p) == Len(task[p].kids)
IsLeaf(n) == task[n].kind = "leaf"
IsSerial(n) == task[n].kind = "serial"
IsParallel(n) == task[n].kind = "parallel"
HasDo(n) == task[n].hasDo
HasDefer(n) == task[n].hasDefer

Drivers == {"Run", "Client"}

\* Contexts: the ones a driver may be given, context.Background(), and the
\* mark of a function that has not been invoked.
Ctxs == {"ctx1", "ctx2"}
Background == "background"
NoCtx == "none"

----------------------------------------------------------------------------
Init ==
    /\ driver \in Drivers
    /\ task \in Trees
    /\ ctx \in Ctxs
    /\ ctxDone = FALSE
    /\ runs = 1
    /\ pc = "start"
    /\ result = NilErr
    /\ doSt = [n \in Nodes |-> "idle"]
    /\ doRes = [n \in Nodes |-> NilErr]
    /\ doCalls = [n \in Nodes |-> 0]
    /\ doCtx = [n \in Nodes |-> NoCtx]
    /\ dfSt = [n \in Nodes |-> "idle"]
    /\ dfRes = [n \in Nodes |-> NilErr]
    /\ dfCalls = [n \in Nodes |-> 0]
    /\ dfCtx = [n \in Nodes |-> NoCtx]
    /\ defers = [n \in Nodes |-> <<>>]
    /\ doIdx = [n \in Nodes |-> 1]
    /\ dfIdx = [n \in Nodes |-> 1]
    /\ doWk = [n \in Nodes |-> [i \in 1..NKids(n) |-> "none"]]
    /\ dfWk = [n \in Nodes |-> <<>>]
    /\ egDo = [n \in Nodes |-> EgZero]
    /\ egDf = [n \in Nodes |-> EgZero]
    /\ multiErrors = [n \in Nodes |-> <<>>]

----------------------------------------------------------------------------
\* Invoking a function value and taking its result.

\* c's Do is invoked with context x: it runs until it has returned.
InvokeDo(c, x) ==
    /\ doSt[c] = "idle"
    /\ doSt' = [doSt EXCEPT ![c] = "running"]
    /\ doCalls' = [doCalls EXCEPT ![c] = @ + 1]
    /\ doCtx' = [doCtx EXCEPT ![c] = x]

\* The caller takes the error c's Do returned.
TakeDo(c) ==
    /\ doSt[c] = "returned"
    /\ doSt' = [doSt EXCEPT ![c] = "done"]

\* p's own Do returns err to whoever invoked it.
ReturnDo(p, err) ==
    /\ doSt' = [doSt EXCEPT ![p] = "returned"]
    /\ doRes' = [doRes EXCEPT ![p] = err]

\* A function value can be invoked again once it has returned.
InvokeDefer(c, x) ==
    /\ dfSt[c] \in {"idle", "done"}
    /\ dfSt' = [dfSt EXCEPT ![c] = "running"]
    /\ dfCalls' = [dfCalls EXCEPT ![c] = @ + 1]
    /\ dfCtx' = [dfCtx EXCEPT ![c] = x]

\* The context each call site hands on: the parameter ctx of the closure or
\* function the call is in.
SerialDoCtx(p) == doCtx[p]
SerialDeferCtx(p) == dfCtx[p]
ParallelDoCtx(p) == doCtx[p]
ParallelDeferCtxBackground(p) == Background
ParallelDeferCtx(p) == dfCtx[p]
RunCtx == ctx

TakeDefer(c) ==
    /\ dfSt[c] = "returned"
    /\ dfSt' = [dfSt EXCEPT ![c] = "done"]

ReturnDefer(p, err) ==
    /\ dfSt' = [dfSt EXCEPT ![p] = "returned"]
    /\ dfRes' = [dfRes EXCEPT ![p] = err]

----------------------------------------------------------------------------
\* A leaf's Do and Defer: opaque functions of the caller of the package.

\* What a leaf's Do can return: nil or its own error.
DoOutcomes(n) == {NilErr, UnitErr("do", n)}

\* What a leaf's Defer can return: nil or its own error.
DeferOutcomes(n) == {NilErr, UnitErr("defer", n)}

LeafDoReturn(n) ==
    /\ IsLeaf(n)
    /\ doSt[n] = "running"
    /\ \E err \in DoOutcomes(n) : ReturnDo(n, err)
    /\ UNCHANGED <<sysVars, treeVars, envVars, flatVars, pc, result, doCalls, doCtx, doIdx, doWk, egDo, defers, dfVars>>

LeafDeferReturn(n) ==
    /\ IsLeaf(n)
    /\ dfSt[n] = "running"
    /\ \E err \in DeferOutcomes(n) : ReturnDefer(n, err)
    /\ UNCHANGED <<sysVars, treeVars, envVars, flatVars, pc, result, doVars, defers, dfCalls, dfCtx, dfIdx, dfWk,
                   egDf, multiErrors>>

----------------------------------------------------------------------------
\* Serial (lines 54-79).

\* Mutation of SerialDoFails: the loop ignores the error and goes on.
SerialDoNeverFails(err) == FALSE

\* Line 61: `if err := t.Do(ctx); err != nil { return err }`.
SerialDoFails(err) == err # NilErr

\* Lines 65-67: `if t.Defer != nil { defers = append(defers, t.Defer) }`.
AppendDefer(ds, c) == IF HasDefer(c) THEN Append(ds, c) ELSE ds

\* Mutation of SerialDefersAfter: the Defer is queued whatever Do returned,
\* as Parallel does.
SerialDefersAlways(ds, c, err) == AppendDefer(ds, c)

\* Lines 60-67: the slice `defers` after the iteration for unit c, whose Do
\* returned err (nil when the unit has no Do): line 62 returns ahead of the
\* append when err is not nil.
SerialDefersAfter(ds, c, err) == IF SerialDoFails(err) THEN ds ELSE AppendDefer(ds, c)

\* Lines 60-61: the loop reaches unit i, whose Do is not nil, and invokes it.
SerialDoCall(p) ==
    /\ IsSerial(p)
    /\ doSt[p] = "running"
    /\ doIdx[p] <= NKids(p)
    /\ LET c == Kids(p)[doIdx[p]] IN
        /\ HasDo(c)
        /\ InvokeDo(c, SerialDoCtx(p))
    /\ UNCHANGED <<sysVars, treeVars, envVars, flatVars, pc, result, doRes, doIdx, doWk, egDo, defers, dfVars>>

\* Lines 60-68: the rest of the iteration for unit i: its Do returned (or is
\* nil); on an error Do returns it, otherwise the unit's Defer is queued and
\* the loop moves on.
SerialDoNext(p) ==
    /\ IsSerial(p)
    /\ doSt[p] = "running"
    /\ doIdx[p] <= NKids(p)
    /\ LET c == Kids(p)[doIdx[p]]
           err == IF HasDo(c) THEN doRes[c] ELSE NilErr
       IN
        /\ HasDo(c) => doSt[c] = "returned"
        /\ IF SerialDoFails(err)
           THEN /\ doSt' = [doSt EXCEPT ![c] = "done", ![p] = "returned"]
                /\ doRes' = [doRes EXCEPT ![p] = err]
                /\ UNCHANGED doIdx
           ELSE /\ doSt' = [doSt EXCEPT ![c] = IF HasDo(c) THEN "done" ELSE @]
                /\ doIdx' = [doIdx EXCEPT ![p] = @ + 1]
                /\ UNCHANGED doRes
        /\ defers' = [defers EXCEPT ![p] = SerialDefersAfter(@, c, err)]
    /\ UNCHANGED <<sysVars, treeVars, envVars, flatVars, pc, result, doCalls, doCtx, doWk, egDo, dfVars>>

\* Line 69: the loop is over, Do returns nil.
SerialDoReturn(p) ==
    /\ IsSerial(p)
    /\ doSt[p] = "running"
    /\ doIdx[p] > NKids(p)
    /\ ReturnDo(p, NilErr)
    /\ UNCHANGED <<sysVars, treeVars, envVars, flatVars, pc, result, doCalls, doCtx, doIdx, doWk, egDo, defers, dfVars>>

\* Mutation of SerialDeferAt: the cleanups are visited last to first.
SerialDeferAtReversed(p, j) == defers[p][Len(defers[p]) + 1 - j]

\* Line 73: the cleanup the range loop of Defer visits at position j.
SerialDeferAt(p, j) == defers[p][j]

\* Line 74: the loop of Defer invokes the queued cleanup at its position.
SerialDeferCall(p) ==
    /\ IsSerial(p)
    /\ dfSt[p] = "running"
    /\ dfIdx[p] <= Len(defers[p])
    /\ InvokeDefer(SerialDeferAt(p, dfIdx[p]), SerialDeferCtx(p))
    /\ UNCHANGED <<sysVars, treeVars, envVars, flatVars, pc, result, doVars, defers, dfRes, dfIdx, dfWk,
                   egDf, multiErrors>>

\* Mutation of CollectDefer: a later error replaces the ones collected.
CollectDeferLast(ms, err) == IF err = NilErr THEN ms ELSE <<err>>

\* Line 74: `multiErrors = append(multiErrors, f(ctx))`.
CollectDefer(ms, err) == Append(ms, err)

\* Line 74: the cleanup returned; its error (or nil) is collected and the
\* loop moves on, whatever it returned.
SerialDeferNext(p) ==
    /\ IsSerial(p)
    /\ dfSt[p] = "running"
    /\ dfIdx[p] <= Len(defers[p])
    /\ LET c == SerialDeferAt(p, dfIdx[p]) IN
        /\ TakeDefer(c)
        /\ multiErrors' = [multiErrors EXCEPT ![p] = CollectDefer(@, dfRes[c])]
    /\ dfIdx' = [dfIdx EXCEPT ![p] = @ + 1]
    /\ UNCHANGED <<sysVars, treeVars, envVars, flatVars, pc, result, doVars, defers, dfRes, dfCalls, dfCtx, dfWk, egDf>>

\* Line 76: `return errgroup.NewMultiError(multiErrors...)`.
SerialDeferReturn(p) ==
    /\ IsSerial(p)
    /\ dfSt[p] = "running"
    /\ dfIdx[p] > Len(defers[p])
    /\ ReturnDefer(p, NewMultiError(multiErrors[p]))
    /\ UNCHANGED <<sysVars, treeVars, envVars, flatVars, pc, result, doVars, defers, dfCalls, dfCtx, dfIdx, dfWk,
                   egDf, multiErrors>>

----------------------------------------------------------------------------
\* Parallel (lines 20-52).

\* Mutation of SpawnsDo: a goroutine is started for a nil Do as well.
SpawnsDoAlways(c) == TRUE

\* Lines 27-33: a unit whose Do is not nil gets eg.Add(1) and a goroutine.
SpawnsDo(c) == HasDo(c)

\* Mutation of ParallelAppendDefer: the Defer is queued only for a unit
\* that has no Do (`else if t.Defer != nil`).
ParallelAppendDeferElse(ds, c) == IF HasDefer(c) /\ ~HasDo(c) THEN Append(ds, c) ELSE ds

\* Mutation of ParallelAppendDefer: the Defer is put in front of the list.
ParallelAppendDeferInFront(ds, c) == IF HasDefer(c) THEN <<c>> \o ds ELSE ds

\* Lines 34-36: `if t.Defer != nil { defers = append(defers, t.Defer) }`,
\* in the same iteration, whatever the unit's Do is or will return.
ParallelAppendDefer(ds, c) == IF HasDefer(c) THEN Append(ds, c) ELSE ds

\* Lines 26-37: one iteration of the range loop of Do, on the goroutine that
\* invoked Do: the unit's goroutine is started and its Defer is queued.
ParallelDoSpawn(p) ==
    /\ IsParallel(p)
    /\ doSt[p] = "running"
    /\ doIdx[p] <= NKids(p)
    /\ LET i == doIdx[p]
           c == Kids(p)[i]
       IN
        /\ IF SpawnsDo(c)
           THEN /\ egDo' = [egDo EXCEPT ![p] = EgAdd(@, 1)]
                /\ doWk' = [doWk EXCEPT ![p][i] = "spawned"]
           ELSE UNCHANGED <<egDo, doWk>>
        /\ defers' = [defers EXCEPT ![p] = ParallelAppendDefer(@, c)]
    /\ doIdx' = [doIdx EXCEPT ![p] = @ + 1]
    /\ UNCHANGED <<sysVars, treeVars, envVars, flatVars, pc, result, doSt, doRes, doCalls, doCtx, dfVars>>

\* Mutation of WorkerUnit: one variable t is shared by all iterations, so a
\* goroutine that runs after the loop finds the last unit in it.
WorkerUnitShared(p, i) == Kids(p)[NKids(p)]

\* Lines 26-31 (and go.mod line 3, go 1.22.2): the t the goroutine started
\* in iteration i captured is that iteration's own variable.
WorkerUnit(p, i) == Kids(p)[i]

\* Line 31: the goroutine of unit i invokes the unit's Do.
WorkerDoCall(p, i) ==
    /\ IsParallel(p)
    /\ i \in 1..NKids(p)
    /\ doWk[p][i] = "spawned"
    /\ InvokeDo(WorkerUnit(p, i), ParallelDoCtx(p))
    /\ doWk' = [doWk EXCEPT ![p][i] = "running"]
    /\ UNCHANGED <<sysVars, treeVars, envVars, flatVars, pc, result, doRes, doIdx, egDo, defers, dfVars>>

\* Mutation of WorkerReport: only the first error of the group is kept.
WorkerReportFirst(eg, err) == IF eg.errs = <<>> THEN EgError(eg, err) ELSE eg

\* Line 31: `eg.Error(t.Do(ctx))`: what the goroutine records of the error
\* its unit returned.
WorkerReport(eg, err) == EgError(eg, err)

\* Lines 30-31: the unit's Do returned; the goroutine records the error and
\* its deferred eg.Done() runs.
WorkerDoDone(p, i) ==
    /\ IsParallel(p)
    /\ i \in 1..NKids(p)
    /\ doWk[p][i] = "running"
    /\ LET c == WorkerUnit(p, i) IN
        /\ TakeDo(c)
        /\ egDo' = [egDo EXCEPT ![p] = EgDone(WorkerReport(@, doRes[c]))]
    /\ doWk' = [doWk EXCEPT ![p][i] = "done"]
    /\ UNCHANGED <<sysVars, treeVars, envVars, flatVars, pc, result, doRes, doCalls, doCtx, doIdx, defers, dfVars>>

\* Mutation of ParallelDoJoined: Do returns without waiting for the group.
ParallelDoNeverWaits(p) == TRUE

\* Line 38: eg.Wait() lets Do return once every goroutine is done.
ParallelDoJoined(p) == EgWaitReady(egDo[p])

\* Line 38: `return eg.Wait()`.
ParallelDoWait(p) ==
    /\ IsParallel(p)
    /\ doSt[p] = "running"
    /\ doIdx[p] > NKids(p)
    /\ ParallelDoJoined(p)
    /\ ReturnDo(p, EgWaitResult(egDo[p]))
    /\ UNCHANGED <<sysVars, treeVars, envVars, flatVars, pc, result, doCalls, doCtx, doIdx, doWk, egDo, defers, dfVars>>

\* Line 42: `eg.Add(len(defers))`, before the first goroutine is started.
DeferAdd(p) == Len(defers[p])

\* Lines 42-48: one iteration of the range loop of Defer: a goroutine is
\* started for the queued cleanup at the loop's position (line 42 runs
\* ahead of the first iteration).
ParallelDeferSpawn(p) ==
    /\ IsParallel(p)
    /\ dfSt[p] = "running"
    /\ dfIdx[p] <= Len(defers[p])
    /\ egDf' = [egDf EXCEPT ![p] = IF dfIdx[p] = 1 THEN EgAdd(@, DeferAdd(p)) ELSE @]
    /\ dfWk' = [dfWk EXCEPT ![p] = Append(@, "spawned")]
    /\ dfIdx' = [dfIdx EXCEPT ![p] = @ + 1]
    /\ UNCHANGED <<sysVars, treeVars, envVars, flatVars, pc, result, doVars, defers, dfSt, dfRes, dfCalls, dfCtx,
                   multiErrors>>

\* Line 46: the goroutine of the j-th queued cleanup invokes it.
WorkerDeferCall(p, j) ==
    /\ IsParallel(p)
    /\ j \in 1..Len(dfWk[p])
    /\ dfWk[p][j] = "spawned"
    /\ InvokeDefer(defers[p][j], ParallelDeferCtx(p))
    /\ dfWk' = [dfWk EXCEPT ![p][j] = "running"]
    /\ UNCHANGED <<sysVars, treeVars, envVars, flatVars, pc, result, doVars, defers, dfRes, dfIdx, egDf,
                   multiErrors>>

\* Lines 45-46: the cleanup returned; the goroutine records the error and
\* its deferred eg.Done() runs.
WorkerDeferDone(p, j) ==
    /\ IsParallel(p)
    /\ j \in 1..Len(dfWk[p])
    /\ dfWk[p][j] = "running"
    /\ LET c == defers[p][j] IN
        /\ TakeDefer(c)
        /\ egDf' = [egDf EXCEPT ![p] = EgDone(WorkerReport(@, dfRes[c]))]
    /\ dfWk' = [dfWk EXCEPT ![p][j] = "done"]
    /\ UNCHANGED <<sysVars, treeVars, envVars, flatVars, pc, result, doVars, defers, dfRes, dfCalls, dfCtx, dfIdx,
                   multiErrors>>

\* Mutation of ParallelDeferJoined: Defer returns without waiting for the
\* group.
ParallelDeferNeverWaits(p) == TRUE

\* Line 49: eg.Wait() lets Defer return once every goroutine is done.
ParallelDeferJoined(p) == EgWaitReady(egDf[p])

\* Line 49: `return eg.Wait()`.
ParallelDeferWait(p) ==
    /\ IsParallel(p)
    /\ dfSt[p] = "running"
    /\ dfIdx[p] > Len(defers[p])
    /\ ParallelDeferJoined(p)
    /\ ReturnDefer(p, EgWaitResult(egDf[p]))
    /\ UNCHANGED <<sysVars, treeVars, envVars, flatVars, pc, result, doVars, defers, dfCalls, dfCtx, dfIdx, dfWk,
                   egDf, multiErrors>>

----------------------------------------------------------------------------
\* Run (lines 81-93).

\* Lines 82-83: Run invokes t.Do unless it is nil.
RunCallDo ==
    /\ driver = "Run"
    /\ pc = "start"
    /\ IF HasDo(Root)
       THEN /\ InvokeDo(Root, RunCtx)
            /\ pc' = "do"
       ELSE /\ pc' = "afterDo"
            /\ UNCHANGED <<doSt, doCalls, doCtx>>
    /\ UNCHANGED <<sysVars, treeVars, envVars, flatVars, result, doRes, doIdx, doWk, egDo, defers, dfVars>>

\* Mutation of RunDoFails: Run goes on to t.Defer after a failed t.Do.
RunDoNeverFails(err) == FALSE

\* Lines 83-85: `if err := t.Do(ctx); err != nil { return err }`.
RunDoFails(err) == err # NilErr

RunDoReturn ==
    /\ driver = "Run"
    /\ pc = "do"
    /\ TakeDo(Root)
    /\ IF RunDoFails(doRes[Root])
       THEN /\ result' = doRes[Root]
            /\ pc' = "done"
       ELSE /\ pc' = "afterDo"
            /\ UNCHANGED result
    /\ UNCHANGED <<sysVars, treeVars, envVars, flatVars, doRes, doCalls, doCtx, doIdx, doWk, egDo, defers, dfVars>>

\* Lines 87-88 and 92: Run invokes t.Defer unless it is nil, and then
\* returns nil.
RunCallDefer ==
    /\ driver = "Run"
    /\ pc = "afterDo"
    /\ IF HasDefer(Root)
       THEN /\ InvokeDefer(Root, RunCtx)
            /\ pc' = "defer"
            /\ UNCHANGED result
       ELSE /\ result' = NilErr
            /\ pc' = "done"
            /\ UNCHANGED <<dfSt, dfCalls, dfCtx>>
    /\ UNCHANGED <<sysVars, treeVars, envVars, flatVars, doVars, defers, dfRes, dfIdx, dfWk, egDf, multiErrors>>

\* Lines 88-92: the value Run returns after t.Defer returned err.
RunDeferResult(err) == IF err # NilErr THEN err ELSE NilErr

RunDeferReturn ==
    /\ driver = "Run"
    /\ pc = "defer"
    /\ TakeDefer(Root)
    /\ result' = RunDeferResult(dfRes[Root])
    /\ pc' = "done"
    /\ UNCHANGED <<sysVars, treeVars, envVars, flatVars, doVars, defers, dfRes, dfCalls, dfCtx, dfIdx, dfWk, egDf,
                   multiErrors>>

----------------------------------------------------------------------------
\* A client of the package that uses the exported fields of Task (lines
\* 15-18) itself: it invokes t.Do, and once that has returned, with an
\* error or not, invokes t.Defer.

ClientCallDo ==
    /\ driver = "Client"
    /\ pc = "start"
    /\ IF HasDo(Root)
       THEN /\ InvokeDo(Root, ctx)
            /\ pc' = "do"
       ELSE /\ pc' = "afterDo"
            /\ UNCHANGED <<doSt, doCalls, doCtx>>
    /\ UNCHANGED <<sysVars, treeVars, envVars, flatVars, result, doRes, doIdx, doWk, egDo, defers, dfVars>>

ClientDoReturn ==
    /\ driver = "Client"
    /\ pc = "do"
    /\ TakeDo(Root)
    /\ result' = doRes[Root]
    /\ pc' = "afterDo"
    /\ UNCHANGED <<sysVars, treeVars, envVars, flatVars, doRes, doCalls, doCtx, doIdx, doWk, egDo, defers, dfVars>>

ClientCallDefer ==
    /\ driver = "Client"
    /\ pc = "afterDo"
    /\ IF HasDefer(Root)
       THEN /\ InvokeDefer(Root, ctx)
            /\ pc' = "defer"
       ELSE /\ pc' = "done"
            /\ UNCHANGED <<dfSt, dfCalls, dfCtx>>
    /\ UNCHANGED <<sysVars, treeVars, envVars, flatVars, result, doVars, defers, dfRes, dfIdx, dfWk, egDf,
                   multiErrors>>

ClientDeferReturn ==
    /\ driver = "Client"
    /\ pc = "defer"
    /\ TakeDefer(Root)
    /\ pc' = "done"
    /\ UNCHANGED <<sysVars, treeVars, envVars, flatVars, result, doVars, defers, dfRes, dfCalls, dfCtx, dfIdx, dfWk,
                   egDf, multiErrors>>

----------------------------------------------------------------------------
\* The callers of Run.

\* Largest number of times Run is given the same Task value.
MaxRuns == 2

\* Lines 21 and 55: `defers := ...` runs once, when Parallel(...) or
\* Serial(...) builds the Task; the closures keep the slice from call to
\* call.
DefersAtCall(ds) == ds

\* Run has returned and is called again with the same Task: every call
\* starts with fresh locals (loop position, errgroup, multiErrors), while
\* each composite's closures still hold their slice `defers`.  What was
\* recorded about the units' invocations starts anew with the run.
Rerun ==
    /\ driver = "Run"
    /\ pc = "done"
    /\ runs < MaxRuns
    /\ runs' = runs + 1
    /\ pc' = "start"
    /\ result' = NilErr
    /\ doSt' = [n \in Nodes |-> "idle"]
    /\ doRes' = [n \in Nodes |-> NilErr]
    /\ doCalls' = [n \in Nodes |-> 0]
    /\ doCtx' = [n \in Nodes |-> NoCtx]
    /\ dfSt' = [n \in Nodes |-> "idle"]
    /\ dfRes' = [n \in Nodes |-> NilErr]
    /\ dfCalls' = [n \in Nodes |-> 0]
    /\ dfCtx' = [n \in Nodes |-> NoCtx]
    /\ defers' = [n \in Nodes |-> DefersAtCall(defers[n])]
    /\ doIdx' = [n \in Nodes |-> 1]
    /\ dfIdx' = [n \in Nodes |-> 1]
    /\ doWk' = [n \in Nodes |-> [i \in 1..NKids(n) |-> "none"]]
    /\ dfWk' = [n \in Nodes |-> <<>>]
    /\ egDo' = [n \in Nodes |-> EgZero]
    /\ egDf' = [n \in Nodes |-> EgZero]
    /\ multiErrors' = [n \in Nodes |-> <<>>]
    /\ UNCHANGED <<sysVars, treeVars, ctxDone, flatVars>>

\* The caller of Run cancels the context it gave to Run, at any moment
\* before Run has returned.
Cancel ==
    /\ driver = "Run"
    /\ pc # "done"
    /\ ~ctxDone
    /\ ctxDone' = TRUE
    /\ UNCHANGED <<sysVars, treeVars, runs, flatVars, pc, result, doVars, defers, dfVars>>

----------------------------------------------------------------------------
\* The command's flat-list driver and the process wrapper.

\* Largest number of Steps in the list handed to run(steps).
MaxSteps == 3

\* Largest number of SIGINTs the operator sends during one run.
MaxInterrupts == 2

\* Capacity of the channel signal.Notify delivers to.
SigCap == 2

\* A Step: Do is always set, Defer may be nil.
Step(f) == [hasDefer |-> f]

StepLists == UNION {[1..k -> {Step(f) : f \in BOOLEAN}] : k \in 0..MaxSteps}

NSteps == Len(steps)

\* The two channels run(steps) makes for its steps.
Kill == "kill"
DeferKill == "deferKill"

\* A receive from channel ch is ready: only a closed channel ever is, since
\* nothing is sent on either.  Nothing closes deferKill.
Closed(ch) == ch = Kill /\ closes > 0

\* An error made by the call of the wrapper for step i's Do or Defer.
WrapErr(kind, ph, i) == [tag |-> kind, ph |-> ph, id |-> i, errs |-> <<>>]

\* cmd.Stdout, cmd.Stderr as the caller hands them over.
Streams == {"nil", "set"}

\* No call of the wrapper is running.
WIdle ==
    [pc |-> "idle", ph |-> "", step |-> 0, kill |-> "",
     stdout |-> "nil", stderr |-> "nil", given |-> <<"nil", "nil">>,
     proc |-> "none", exit |-> "none", wt |-> "none", wtVal |-> NilErr,
     via |-> "", e1 |-> NilErr, ret |-> NilErr]

\* run(cmd, kill) is entered by step i's Do or Defer with streams so, se.
WrapperEnter(ph, i, ch, so, se) ==
    [WIdle EXCEPT !.pc = "check", !.ph = ph, !.step = i, !.kill = ch,
                  !.stdout = so, !.stderr = se, !.given = <<so, se>>]

\* What the two guards at the top of the wrapper return; "" lets it go on.
StreamCheckNever(so, se) == ""
StreamCheck(so, se) ==
    IF so # "nil" THEN "stdoutSet"
    ELSE IF se # "nil" THEN "stderrSet"
    ELSE ""

\* Lines 1070-1078: refuse bound streams, else bind both to the buffer.
WrapperCheck ==
    /\ w.pc = "check"
    /\ w' = IF StreamCheck(w.stdout, w.stderr) # ""
            THEN [w EXCEPT !.pc = "returned",
                           !.ret = WrapErr(StreamCheck(w.stdout, w.stderr),
                                           w.ph, w.step)]
            ELSE [w EXCEPT !.stdout = "buf", !.stderr = "buf",
                           !.pc = "start"]
    /\ UNCHANGED <<sysVars, taskVars, steps, fpc, fres, sig, interrupts, closes,
                   worker, hist, dfOrder, logged>>

\* Lines 1079-1090: cmd.Start; on success the waiter goroutine is spawned
\* and the wrapper reaches its select.
WrapperStart ==
    /\ w.pc = "start"
    /\ \E ok \in BOOLEAN :
        w' = IF ok
             THEN [w EXCEPT !.proc = "running", !.wt = "waiting",
                            !.pc = "select"]
             ELSE [w EXCEPT !.pc = "returned",
                            !.ret = WrapErr("start", w.ph, w.step)]
    /\ UNCHANGED <<sysVars, taskVars, steps, fpc, fres, sig, interrupts, closes,
                   worker, hist, dfOrder, logged>>

\* The child terminates by itself, successfully or not; it stays a zombie
\* until cmd.Wait collects it.
ProcessExit ==
    /\ w.proc = "running"
    /\ \E x \in {"ok", "fail"} : w' = [w EXCEPT !.proc = "exited", !.exit = x]
    /\ UNCHANGED <<sysVars, taskVars, steps, fpc, fres, sig, interrupts, closes,
                   worker, hist, dfOrder, logged>>

\* What the waiter goroutine sends on ec for the result of cmd.Wait.
WaitErrorNil(x, ph, i) == NilErr
WaitError(x, ph, i) == IF x = "ok" THEN NilErr ELSE WrapErr(x, ph, i)

\* Lines 1085-1089: where the waiter goroutine is once cmd.Wait has returned
\* err: both branches send on ec before the goroutine ends.
AfterWaitSilentOnError(err) == IF err # NilErr THEN "done" ELSE "sending"
AfterWait(err) == "sending"

\* Lines 1084-1089, first half: cmd.Wait returns once the child is gone;
\* the goroutine then blocks sending on the unbuffered ec.
WaiterWait ==
    /\ w.wt = "waiting"
    /\ w.proc = "exited"
    /\ w' = [w EXCEPT !.proc = "reaped",
                      !.wt = AfterWait(WaitError(w.exit, w.ph, w.step)),
                      !.wtVal = WaitError(w.exit, w.ph, w.step)]
    /\ UNCHANGED <<sysVars, taskVars, steps, fpc, fres, sig, interrupts, closes,
                   worker, hist, dfOrder, logged>>

\* Lines 1083-1090: ec is unbuffered, so a receive from it completes only
\* while the waiter goroutine is blocked in its send.
EcReadyAlways == TRUE
EcReady == w.wt = "sending"

\* Line 1092: the select takes the kill case.
WrapperSelectKill ==
    /\ w.pc = "select"
    /\ Closed(w.kill)
    /\ w' = [w EXCEPT !.pc = "kill", !.via = "kill"]
    /\ UNCHANGED <<sysVars, taskVars, steps, fpc, fres, sig, interrupts, closes,
                   worker, hist, dfOrder, logged>>

\* What cmd.Process.Kill returns for a child in state p: it signals a child
\* that runs or is a zombie, and fails once Wait has collected it.
KillResult(p, ph, i) == IF p = "reaped" THEN WrapErr("done", ph, i) ELSE NilErr

\* Line 1093: e1 := cmd.Process.Kill().
WrapperKill ==
    /\ w.pc = "kill"
    /\ w' = [w EXCEPT !.e1 = KillResult(w.proc, w.ph, w.step),
                      !.proc = IF @ = "running" THEN "exited" ELSE @,
                      !.exit = IF w.proc = "running" THEN "killed" ELSE @,
                      !.pc = "recv"]
    /\ UNCHANGED <<sysVars, taskVars, steps, fpc, fres, sig, interrupts, closes,
                   worker, hist, dfOrder, logged>>

\* Lines 1095-1098: the wait error when there is one, else Kill's result.
KilledResultKill(e1, e2) == e1
KilledResult(e1, e2) == IF e2 # NilErr THEN e2 ELSE e1

\* Lines 1094-1098: e2 := <-ec, then return.
WrapperRecvKilled ==
    /\ w.pc = "recv"
    /\ EcReady
    /\ w' = [w EXCEPT !.ret = KilledResult(w.e1, w.wtVal), !.wt = "done",
                      !.pc = "returned"]
    /\ UNCHANGED <<sysVars, taskVars, steps, fpc, fres, sig, interrupts, closes,
                   worker, hist, dfOrder, logged>>

\* Lines 1099-1102: where control is after the ec case of the select: the
\* case ends in a return, so it is not at the panic below the select.
AfterEcCaseFallsThrough == "panic"
AfterEcCase == "returned"

\* Lines 1099-1100: the select takes the ec case and returns what it got.
WrapperSelectEc ==
    /\ w.pc = "select"
    /\ EcReady
    /\ w' = [w EXCEPT !.ret = w.wtVal, !.wt = "done", !.pc = AfterEcCase,
                      !.via = "ec"]
    /\ UNCHANGED <<sysVars, taskVars, steps, fpc, fres, sig, interrupts, closes,
                   worker, hist, dfOrder, logged>>

\* What is recorded about one step.
HistZero ==
    [doInv |-> 0, doSt |-> "none", doErr |-> NilErr, doKill |-> "",
     dfInv |-> 0, dfSt |-> "none", dfErr |-> NilErr, dfKill |-> "",
     cancelled |-> FALSE, exit |-> "none"]

\* The goroutine: `stack` holds the deferred calls still to run, `queued`
\* every call the closure has deferred so far.
WorkerZero ==
    [pc |-> "none", idx |-> 1, stack |-> <<>>, queued |-> <<>>,
     ret |-> NilErr]

\* The state before run(steps) is called.
FlatInit ==
    /\ steps \in StepLists
    /\ fpc = "spawn"
    /\ fres = NilErr
    /\ sig = 0
    /\ interrupts = 0
    /\ closes = 0
    /\ worker = WorkerZero
    /\ w = WIdle
    /\ hist = [i \in 1..NSteps |-> HistZero]
    /\ dfOrder = <<>>
    /\ logged = <<>>

\* Lines 224-238: the channels are made and the goroutine is started.
FlatSpawn ==
    /\ fpc = "spawn"
    /\ fpc' = "notify"
    /\ worker' = [worker EXCEPT !.pc = "loop"]
    /\ UNCHANGED <<sysVars, taskVars, steps, fres, sig, interrupts, closes, w, hist,
                   dfOrder, logged>>

\* Lines 240-241: SIGINT is routed to sig from here on.
FlatNotify ==
    /\ fpc = "notify"
    /\ fpc' = "select"
    /\ UNCHANGED <<sysVars, taskVars, steps, fres, sig, interrupts, closes, worker, w,
                   hist, dfOrder, logged>>

\* package signal sends without blocking: a signal that finds sig full is
\* dropped.
Deliver(n) == IF n < SigCap THEN n + 1 ELSE n

\* The operator presses ^C while run(steps) is between Notify and return.
Interrupt ==
    /\ fpc \in {"select", "recv"}
    /\ interrupts < MaxInterrupts
    /\ interrupts' = interrupts + 1
    /\ sig' = Deliver(sig)
    /\ UNCHANGED <<sysVars, taskVars, steps, fpc, fres, closes, worker, w, hist,
                   dfOrder, logged>>

\* The step whose Do is blocked in the wrapper's select right now, if any.
BlockedDo ==
    IF worker.pc = "inDo" /\ w.pc = "select" THEN {worker.idx} ELSE {}

\* Line 245: after close(kill) main blocks in `return <-ec`; it does not
\* come back to the select.
AfterSigSelectsAgain == "select"
AfterSig == "recv"

\* Lines 243-244: the select takes the sig case and closes kill.
FlatSelectSig ==
    /\ fpc = "select"
    /\ sig > 0
    /\ sig' = sig - 1
    /\ closes' = closes + 1
    /\ fpc' = AfterSig
    /\ hist' = [i \in 1..NSteps |->
                  IF i \in BlockedDo THEN [hist[i] EXCEPT !.cancelled = TRUE]
                  ELSE hist[i]]
    /\ UNCHANGED <<sysVars, taskVars, steps, fres, interrupts, worker, w, dfOrder,
                   logged>>

\* Lines 224 and 229: ec is unbuffered, so main receives from it only while
\* the goroutine is blocked in its send, after the closure has returned.
EcSendingAlways == TRUE
EcSending == worker.pc = "send"

\* Line 245: what run(steps) returns after an interrupt for the value v it
\* received from ec.
AfterSigResultInterrupted(v) == WrapErr("interrupted", "", 0)
AfterSigResult(v) == v

\* Lines 245 and 246-247: main receives the goroutine's result and returns.
FlatReceive ==
    /\ fpc \in {"select", "recv"}
    /\ EcSending
    /\ fres' = IF fpc = "recv" THEN AfterSigResult(worker.ret) ELSE worker.ret
    /\ fpc' = "returned"
    /\ worker' = [worker EXCEPT !.pc = "done"]
    /\ UNCHANGED <<sysVars, taskVars, steps, sig, interrupts, closes, w, hist, dfOrder,
                   logged>>

\* The channel the loop hands to a step's Do.
DoKillChan == Kill

\* Lines 230-231: the range loop has no condition under which it passes
\* over a step or stops; in particular it does not look at kill.
StepSkippedWhenKilled == Closed(Kill)
StepSkipped == FALSE

\* Line 231, call: step.Do(kill) enters the wrapper (as LuksOpen does,
\* src/system/system.go 497-505).
WorkerCallDo ==
    /\ worker.pc = "loop"
    /\ worker.idx <= NSteps
    /\ ~StepSkipped
    /\ w.pc = "idle"
    /\ \E so \in Streams, se \in Streams :
        w' = WrapperEnter("do", worker.idx, DoKillChan, so, se)
    /\ worker' = [worker EXCEPT !.pc = "inDo"]
    /\ hist' = [hist EXCEPT ![worker.idx].doInv = @ + 1,
                            ![worker.idx].doSt = "running",
                            ![worker.idx].doKill = DoKillChan]
    /\ UNCHANGED <<sysVars, taskVars, steps, fpc, fres, sig, interrupts, closes,
                   dfOrder, logged>>

\* Line 231: a Do that returns a non-nil error ends the loop.
StepDoNeverFails(err) == FALSE
StepDoFails(err) == err # NilErr

\* Lines 231-234: the deferred calls after step i's Do returned err.
DeferAlways(st, i, err) == Append(st, i)
DeferAfter(st, i, err) == IF err # NilErr THEN st ELSE Append(st, i)

\* Lines 231-234, return: a failed Do ends the closure with its error, a
\* successful one defers the step's LoggedDefer and the loop goes on.
WorkerDoReturn ==
    /\ worker.pc = "inDo"
    /\ w.pc = "returned"
    /\ LET i == worker.idx
           err == w.ret
       IN /\ hist' = [hist EXCEPT ![i].doSt = "returned", ![i].doErr = err,
                                  ![i].exit = w.exit]
          /\ worker' = IF StepDoFails(err)
                       THEN [worker EXCEPT !.pc = "unwind", !.ret = err,
                                  !.stack = DeferAfter(@, i, err),
                                  !.queued = DeferAfter(@, i, err)]
                       ELSE [worker EXCEPT !.pc = "loop", !.idx = i + 1,
                                  !.stack = DeferAfter(@, i, err),
                                  !.queued = DeferAfter(@, i, err)]
    /\ w' = WIdle
    /\ UNCHANGED <<sysVars, taskVars, steps, fpc, fres, sig, interrupts, closes,
                   dfOrder, logged>>

\* Line 236: the range is exhausted, the closure returns nil.
WorkerLoopEnd ==
    /\ worker.pc = "loop"
    /\ worker.idx > NSteps
    /\ worker' = [worker EXCEPT !.pc = "unwind", !.ret = NilErr]
    /\ UNCHANGED <<sysVars, taskVars, steps, fpc, fres, sig, interrupts, closes, w,
                   hist, dfOrder, logged>>

\* The deferred call that runs next: Go runs them last in, first out.
NextDeferredFirst(st) == Head(st)
NextDeferred(st) == st[Len(st)]

Remaining(st, i) == SelectSeq(st, LAMBDA j : j # i)

\* The channel LoggedDefer was deferred with.
DeferKillChanShared == Kill
DeferKillChan == DeferKill

\* Lines 120-124 at the closure's return: the next deferred LoggedDefer
\* starts; it returns at once when the step has no Defer, else it calls
\* s.Defer(kill), which enters the wrapper.
WorkerCallDefer ==
    /\ worker.pc = "unwind"
    /\ worker.stack # <<>>
    /\ LET i == NextDeferred(worker.stack)
       IN IF steps[i].hasDefer
          THEN /\ w.pc = "idle"
               /\ \E so \in Streams, se \in Streams :
                    w' = WrapperEnter("defer", i, DeferKillChan, so, se)
               /\ worker' = [worker EXCEPT !.pc = "inDefer", !.idx = i,
                                   !.stack = Remaining(@, i)]
               /\ hist' = [hist EXCEPT ![i].dfInv = @ + 1,
                                       ![i].dfSt = "running",
                                       ![i].dfKill = DeferKillChan]
               /\ dfOrder' = Append(dfOrder, i)
          ELSE /\ worker' = [worker EXCEPT !.stack = Remaining(@, i)]
               /\ UNCHANGED <<w, hist, dfOrder>>
    /\ UNCHANGED <<sysVars, taskVars, steps, fpc, fres, sig, interrupts, closes,
                   logged>>

\* Lines 124-126: what LoggedDefer prints for the error its Defer returned.
Log(lg, err) == IF err # NilErr THEN Append(lg, err) ELSE lg

\* Lines 124-127, return: the Defer's error is printed and dropped.
WorkerDeferReturn ==
    /\ worker.pc = "inDefer"
    /\ w.pc = "returned"
    /\ hist' = [hist EXCEPT ![worker.idx].dfSt = "returned",
                            ![worker.idx].dfErr = w.ret]
    /\ logged' = Log(logged, w.ret)
    /\ worker' = [worker EXCEPT !.pc = "unwind"]
    /\ w' = WIdle
    /\ UNCHANGED <<sysVars, taskVars, steps, fpc, fres, sig, interrupts, closes,
                   dfOrder>>

\* Lines 229-237: where the goroutine is once the closure has returned err:
\* the one statement of its body sends that value on ec, whatever it is.
AfterClosureSilentOnError(err) == IF err # NilErr THEN "done" ELSE "send"
AfterClosure(err) == "send"

\* Line 229: all deferred calls have run; the goroutine blocks sending the
\* closure's result on the unbuffered ec.
WorkerSend ==
    /\ worker.pc = "unwind"
    /\ worker.stack = <<>>
    /\ worker' = [worker EXCEPT !.pc = AfterClosure(worker.ret)]
    /\ UNCHANGED <<sysVars, taskVars, steps, fpc, fres, sig, interrupts, closes, w,
                   hist, dfOrder, logged>>

\* The flat-list driver is not part of a run of the composers.
FlatIdle ==
    /\ steps = <<>>
    /\ fpc = "idle"
    /\ fres = NilErr
    /\ sig = 0
    /\ interrupts = 0
    /\ closes = 0
    /\ worker = WorkerZero
    /\ w = WIdle
    /\ hist = <<>>
    /\ dfOrder = <<>>
    /\ logged = <<>>

\* The composers are not part of a run of the flat-list driver.
TaskIdle ==
    /\ Init
    /\ driver = "Client"
    /\ ctx = "ctx1"
    /\ task = <<Leaf(FALSE, FALSE)>>

NextFlat ==
    \/ FlatSpawn
    \/ FlatNotify
    \/ Interrupt
    \/ FlatSelectSig
    \/ FlatReceive
    \/ WorkerCallDo
    \/ WorkerDoReturn
    \/ WorkerLoopEnd
    \/ WorkerCallDefer
    \/ WorkerDeferReturn
    \/ WorkerSend
    \/ WrapperCheck
    \/ WrapperStart
    \/ ProcessExit
    \/ WaiterWait
    \/ WrapperSelectKill
    \/ WrapperKill
    \/ WrapperRecvKilled
    \/ WrapperSelectEc

----------------------------------------------------------------------------
\* package system: VirtualFS.Mount / VirtualFS.Umount and the wait for the
\* root device at the end of Config.GptSetup.

\* Largest number of calls of Mount and Umount made on one VirtualFS.
MaxVfsCalls == 3

\* Line 764.
virtualFSs == <<"dev", "dev/pts", "sys", "proc">>

\* What a call run(cmd, kill) can come to for a command on an entry that is
\* mounted n times: `err` is whether the wrapper returns an error, `done`
\* whether the command took effect.  A command that fails changes nothing;
\* one that took effect makes the wrapper return nil, or an error all the
\* same when it was cancelled too late (Kill's error, or a kill that
\* arrives between the system call and the exit).  umount of an entry that
\* is not mounted fails.
RunOutcomes(op, n) ==
    IF op = "umount" /\ n = 0
    THEN {[err |-> TRUE, done |-> FALSE]}
    ELSE {[err |-> FALSE, done |-> TRUE],
          [err |-> TRUE, done |-> FALSE],
          [err |-> TRUE, done |-> TRUE]}

\* The mount table after command op on entry i took effect.
Effect(op, tab, i) ==
    [tab EXCEPT ![i] = IF op = "mount" THEN @ + 1 ELSE @ - 1]

\* No call is running; nothing is mounted under f.Dir.
VfsZero ==
    [pc |-> "idle", op |-> "", i |-> 0, calls |-> 0, ret |-> NilErr,
     log |-> <<>>,
     table |-> [k \in 1..Len(virtualFSs) |-> 0],
     before |-> [k \in 1..Len(virtualFSs) |-> 0]]

\* Lines 779 and 791: if err := run(cmd, kill); err != nil { return err }.
RunFailedNever(err) == FALSE
RunFailed(err) == err # NilErr

\* Lines 772-773: the caller enters Mount; the range loop starts at
\* the first entry.
VfsCallMount ==
    /\ vfs.pc \in {"idle", "returned"}
    /\ vfs.calls < MaxVfsCalls
    /\ vfs' = [vfs EXCEPT !.pc = "loop", !.op = "mount", !.i = 1,
                          !.calls = @ + 1, !.ret = NilErr, !.log = <<>>,
                          !.before = vfs.table]
    /\ UNCHANGED <<taskVars, flatVars, gpt>>

\* Lines 787-788: the caller enters Umount; the loop starts at the last
\* entry.
VfsCallUmount ==
    /\ vfs.pc \in {"idle", "returned"}
    /\ vfs.calls < MaxVfsCalls
    /\ vfs' = [vfs EXCEPT !.pc = "loop", !.op = "umount",
                          !.i = Len(virtualFSs),
                          !.calls = @ + 1, !.ret = NilErr, !.log = <<>>,
                          !.before = vfs.table]
    /\ UNCHANGED <<taskVars, flatVars, gpt>>

\* Lines 773 and 788: the loop of Mount goes on while entries are left, the
\* loop of Umount while i >= 0 (positions here count from 1).
VfsMore == IF vfs.op = "mount" THEN vfs.i <= Len(virtualFSs) ELSE vfs.i >= 1

\* Line 773 (range) and line 788 (i = i - 1).
VfsAdvance(op, i) == IF op = "mount" THEN i + 1 ELSE i - 1

\* Lines 774-781 and 789-793: one turn of either loop: the command for
\* entry i is run; its error ends the call.
VfsCommand ==
    /\ vfs.pc = "loop"
    /\ VfsMore
    /\ \E o \in RunOutcomes(vfs.op, vfs.table[vfs.i]) :
        LET err == IF o.err THEN WrapErr("fail", vfs.op, vfs.i) ELSE NilErr
            tab == IF o.done THEN Effect(vfs.op, vfs.table, vfs.i)
                   ELSE vfs.table
            lg == Append(vfs.log, [name |-> virtualFSs[vfs.i], err |-> err])
        IN vfs' = IF RunFailed(err)
                  THEN [vfs EXCEPT !.pc = "returned", !.ret = err,
                                   !.log = lg, !.table = tab]
                  ELSE [vfs EXCEPT !.i = VfsAdvance(vfs.op, vfs.i),
                                   !.log = lg, !.table = tab]
    /\ UNCHANGED <<taskVars, flatVars, gpt>>

\* Lines 783 and 795: the loop is over, return nil.
VfsReturnNil ==
    /\ vfs.pc = "loop"
    /\ ~VfsMore
    /\ vfs' = [vfs EXCEPT !.pc = "returned", !.ret = NilErr]
    /\ UNCHANGED <<taskVars, flatVars, gpt>>

NextVfs ==
    \/ VfsCallMount
    \/ VfsCallUmount
    \/ VfsCommand
    \/ VfsReturnNil

\* Lines 886-888, in milliseconds.
GptMax == 2000
GptSleep == 50
GptStart == 1

\* What os.Stat(c.Root.Device) can come to: the device is there, it is not
\* there yet, or Stat fails for another reason.
StatResults == {"found", "notexist", "other"}

\* GptSetup has built the sgdisk command line.
GptZero ==
    [pc |-> "sgdisk", current |-> GptStart, polls |-> 0, last |-> "none",
     ret |-> NilErr]

\* Lines 881-888: sgdisk is run; its error ends the call, else the three
\* durations are set.
GptSgdisk ==
    /\ gpt.pc = "sgdisk"
    /\ \E ok \in BOOLEAN :
        gpt' = IF ok THEN [gpt EXCEPT !.pc = "stat"]
               ELSE [gpt EXCEPT !.pc = "returned",
                                !.ret = WrapErr("fail", "sgdisk", 0)]
    /\ UNCHANGED <<taskVars, flatVars, vfs>>

\* Lines 890-898: one poll: nil ends the loop (and the call, with nil), an
\* error other than not-exist is returned.
GptStat ==
    /\ gpt.pc = "stat"
    /\ \E r \in StatResults :
        gpt' = CASE r = "found" ->
                     [gpt EXCEPT !.pc = "returned", !.ret = NilErr,
                                 !.polls = @ + 1, !.last = r]
                 [] r = "notexist" ->
                     [gpt EXCEPT !.pc = "sleep", !.polls = @ + 1,
                                 !.last = r]
                 [] OTHER ->
                     [gpt EXCEPT !.pc = "returned",
                                 !.ret = WrapErr("stat", "gpt", 0),
                                 !.polls = @ + 1, !.last = r]
    /\ UNCHANGED <<taskVars, flatVars, vfs>>

\* Line 895: time.Sleep(sleep) returns.
GptSlept ==
    /\ gpt.pc = "sleep"
    /\ gpt' = [gpt EXCEPT !.pc = "check"]
    /\ UNCHANGED <<taskVars, flatVars, vfs>>

\* Line 899: if current > max.
GptExpiredLate(current) == current > 2 * GptMax
GptExpired(current) == current > GptMax

\* Lines 899-902: give up when the counter has passed the limit, else
\* advance it and poll again.
GptCheck ==
    /\ gpt.pc = "check"
    /\ gpt' = IF GptExpired(gpt.current)
              THEN [gpt EXCEPT !.pc = "returned",
                               !.ret = WrapErr("failed to find", "gpt", 0)]
              ELSE [gpt EXCEPT !.pc = "stat", !.current = @ + GptSleep]
    /\ UNCHANGED <<taskVars, flatVars, vfs>>

NextGpt ==
    \/ GptSgdisk
    \/ GptStat
    \/ GptSlept
    \/ GptCheck

\* Package system is not part of a run of the composers or of run(steps).
SysIdle ==
    /\ vfs = VfsZero
    /\ gpt = GptZero

----------------------------------------------------------------------------
----------------------------------------------------------------------------
\* The steps of the composers and of the units, whoever drives node 1.
TaskStep ==
    \/ \E n \in Nodes : LeafDoReturn(n)
    \/ \E n \in Nodes : LeafDeferReturn(n)
    \/ \E n \in Nodes : SerialDoCall(n)
    \/ \E n \in Nodes : SerialDoNext(n)
    \/ \E n \in Nodes : SerialDoReturn(n)
    \/ \E n \in Nodes : SerialDeferCall(n)
    \/ \E n \in Nodes : SerialDeferNext(n)
    \/ \E n \in Nodes : SerialDeferReturn(n)
    \/ \E n \in Nodes : ParallelDoSpawn(n)
    \/ \E n \in Nodes : ParallelDoWait(n)
    \/ \E n \in Nodes : ParallelDeferSpawn(n)
    \/ \E n \in Nodes : ParallelDeferWait(n)
    \/ \E n \in Nodes : \E i \in 1..NKids(n) : WorkerDoCall(n, i)
    \/ \E n \in Nodes : \E i \in 1..NKids(n) : WorkerDoDone(n, i)
    \/ \E n \in Nodes : \E j \in 1..Len(dfWk[n]) : WorkerDeferCall(n, j)
    \/ \E n \in Nodes : \E j \in 1..Len(dfWk[n]) : WorkerDeferDone(n, j)

\* Node 1 is run by summon.Run.
Next ==
    \/ RunCallDo
    \/ RunDoReturn
    \/ RunCallDefer
    \/ RunDeferReturn
    \/ TaskStep

\* Node 1 is driven by a client through its exported fields.
NextClient ==
    \/ ClientCallDo
    \/ ClientDoReturn
    \/ ClientCallDefer
    \/ ClientDeferReturn
    \/ TaskStep

InitRun == Init /\ driver = "Run" /\ FlatIdle /\ SysIdle
InitClient == Init /\ driver = "Client" /\ ctx = "ctx1" /\ FlatIdle /\ SysIdle

InitFlat == TaskIdle /\ FlatInit /\ SysIdle

Spec == InitRun /\ [][Next]_vars

SpecClient == InitClient /\ [][NextClient]_vars

SpecFlat == InitFlat /\ [][NextFlat]_vars

\* Calls of Mount and Umount on one VirtualFS, in any order.
InitVfs == TaskIdle /\ FlatIdle /\ SysIdle

SpecVfs == InitVfs /\ [][NextVfs]_vars

\* One call of GptSetup; it is a single goroutine, and os.Stat and
\* time.Sleep return.
InitGpt == TaskIdle /\ FlatIdle /\ SysIdle

SpecGpt == InitGpt /\ [][NextGpt]_vars /\ WF_vars(NextGpt)

\* The steps of the three goroutines of a run of the flat-list driver: main
\* (src/summon.go 223-250), the one it starts (227-238, which also executes
\* every call of the wrapper), and the wrapper's waiter
\* (src/system/system.go 1084-1090).  A receive from an unbuffered channel
\* is a step of the receiver taken while the sender is blocked.
MainStep == FlatSpawn \/ FlatNotify \/ FlatSelectSig \/ FlatReceive

WorkerStep ==
    \/ WorkerCallDo
    \/ WorkerDoReturn
    \/ WorkerLoopEnd
    \/ WorkerCallDefer
    \/ WorkerDeferReturn
    \/ WorkerSend
    \/ WrapperCheck
    \/ WrapperStart
    \/ WrapperSelectKill
    \/ WrapperKill
    \/ WrapperRecvKilled
    \/ WrapperSelectEc

WaiterStep == WaiterWait

\* A step of the program or of a child process, not of the operator.
ProgramStep == MainStep \/ WorkerStep \/ WaiterStep \/ ProcessExit

\* The flat-list driver under the least the scheduling gives: while some
\* goroutine can take a step or a child process runs, one of them does
\* step.  Nothing obliges the operator to interrupt.
SpecFlatLive == SpecFlat /\ WF_vars(ProgramStep)

\* Run is called up to MaxRuns times with the same composite of leaves.
InitRerun == InitRun /\ ctx = "ctx1" /\ task \in FlatTrees

NextRerun ==
    \/ Rerun
    \/ Next

SpecRerun == InitRerun /\ [][NextRerun]_vars

\* A run in which the signal can be raised: Run of a Task whose context the
\* caller may cancel, or run(steps) with an operator who may interrupt.
InitCancel ==
    \/ InitRun /\ ctx = "ctx1"
    \/ InitFlat

NextCancel ==
    \/ Cancel
    \/ Next
    \/ NextFlat

SpecCancel == InitCancel /\ [][NextCancel]_vars

----------------------------------------------------------------------------
\* Properties.

Range(sq) == {sq[i] : i \in DOMAIN sq}
Serials == {p \in Nodes : IsSerial(p)}
Parallels == {p \in Nodes : IsParallel(p)}

\* The Do (the Defer) of n has returned.
DoReturned(n) == doSt[n] \in {"returned", "done"}
DeferReturned(n) == dfSt[n] \in {"returned", "done"}

\* Unit c's Do was invoked and returned an error.
DoFailed(c) == HasDo(c) /\ DoReturned(c) /\ doRes[c] # NilErr

\* C1: Serial.Do invokes the units' Do one at a time in list order: a unit's
\* Do is invoked at most once, and only after the Do of every earlier unit
\* that has one has returned nil and been taken by the loop.  When the k-th
\* unit's Do has returned an error, no later unit's Do is ever invoked, and
\* once the loop has taken that error Serial.Do has returned that same error.
C1_SerialDoInOrderStopsAtFirstError ==
    \A p \in Serials : \A j \in 1..NKids(p) :
        LET c == Kids(p)[j] IN
        /\ doCalls[c] <= 1
        /\ doCalls[c] > 0 =>
            \A i \in 1..(j - 1) :
                HasDo(Kids(p)[i]) =>
                    doSt[Kids(p)[i]] = "done" /\ doRes[Kids(p)[i]] = NilErr
        /\ DoFailed(c) =>
            /\ \A l \in (j + 1)..NKids(p) : doCalls[Kids(p)[l]] = 0
            /\ doSt[c] = "done" => DoReturned(p) /\ doRes[p] = doRes[c]
        /\ DoReturned(p) /\ doRes[p] # NilErr => \E k \in 1..NKids(p) : DoFailed(Kids(p)[k])

\* A Serial of three units, all with a Do: the first returned nil, the second
\* failed, Serial.Do returned the second's error and the third never ran.
C1_Witness ==
    \E p \in Serials :
        /\ NKids(p) = 3
        /\ \A j \in 1..3 : HasDo(Kids(p)[j])
        /\ doSt[Kids(p)[1]] = "done" /\ doRes[Kids(p)[1]] = NilErr
        /\ DoFailed(Kids(p)[2])
        /\ DoReturned(p) /\ doRes[p] = UnitErr("do", Kids(p)[2])
        /\ doCalls[Kids(p)[3]] = 0

\* C2: when Run has returned from a Serial whose k-th unit's Do failed, Run
\* returned that unit's error, no unit after k had its Do invoked, and the
\* Defer of every unit that has one and whose Do ran before the failed one
\* was invoked exactly once (the claim's scenario: Serial(A with Defer,
\* B failing, C) gives B's error, A.Defer ran, C.Do never ran).  The claim
\* also counts the failed unit k among the units whose Defer ran; this
\* formula does not need it.
C2_RunOfFailedSerialRanDefers ==
    (pc = "done" /\ IsSerial(Root)) =>
        \A k \in 1..NKids(Root) :
            DoFailed(Kids(Root)[k]) =>
                /\ result = doRes[Kids(Root)[k]]
                /\ \A j \in (k + 1)..NKids(Root) : doCalls[Kids(Root)[j]] = 0
                /\ \A i \in 1..(k - 1) :
                    HasDefer(Kids(Root)[i]) => dfCalls[Kids(Root)[i]] = 1

\* C3: Run invokes t.Do first and at most once, and t.Defer at most once and
\* never before t.Do returned nil (or is nil).  When Run has returned: after
\* a failed Do it returned Do's error and Defer was never invoked; otherwise,
\* with a Defer, Defer was invoked exactly once and Run returned what it
\* returned; otherwise Run returned nil.
C3_RunDoThenDefer ==
    /\ doCalls[Root] <= 1 /\ dfCalls[Root] <= 1
    /\ dfCalls[Root] > 0 => (HasDo(Root) => doSt[Root] = "done" /\ doRes[Root] = NilErr)
    /\ DoFailed(Root) => dfCalls[Root] = 0
    /\ pc = "done" =>
        /\ HasDo(Root) => doCalls[Root] = 1
        /\ ~HasDo(Root) => doCalls[Root] = 0
        /\ IF DoFailed(Root) THEN result = doRes[Root] /\ result # NilErr
           ELSE IF HasDefer(Root) THEN dfCalls[Root] = 1 /\ result = dfRes[Root]
           ELSE dfCalls[Root] = 0 /\ result = NilErr

\* Run has returned the error of the Defer of a bare Task whose Do returned
\* nil.
C3_Witness ==
    /\ pc = "done"
    /\ IsLeaf(Root) /\ HasDo(Root) /\ HasDefer(Root)
    /\ doCalls[Root] = 1 /\ doRes[Root] = NilErr
    /\ dfCalls[Root] = 1
    /\ result = UnitErr("defer", Root)

\* The units among the first n of p that have a Defer, in list order.
RECURSIVE WithDefer(_, _)
WithDefer(p, n) ==
    IF n = 0 THEN <<>>
    ELSE IF HasDefer(Kids(p)[n]) THEN Append(WithDefer(p, n - 1), Kids(p)[n])
    ELSE WithDefer(p, n - 1)

\* The units of p whose Do failed; the queued cleanups of p that failed.
FailedDos(p) == {c \in Range(Kids(p)) : DoFailed(c)}
FailedDefers(p) == {c \in Range(defers[p]) : DeferReturned(c) /\ dfRes[c] # NilErr}

\* err aggregates exactly the errors es: nil for none, the error itself for
\* one, for more a MultiError that holds each of them once and nothing else.
Aggregates(err, es) ==
    /\ err = NilErr <=> es = {}
    /\ Cardinality(es) = 1 => err \in es
    /\ Cardinality(es) > 1 =>
        /\ err.tag = "multi"
        /\ Range(err.errs) = es
        /\ Len(err.errs) = Cardinality(es)

\* C4: Parallel.Do has not returned before the Do of every unit that has
\* one was invoked (exactly once) and has completed, whatever any of them
\* returned: a failed sibling neither cancels another nor keeps it from
\* starting.
C4_ParallelDoJoinsAllSiblings ==
    \A p \in Parallels :
        DoReturned(p) =>
            \A i \in 1..NKids(p) :
                HasDo(Kids(p)[i]) =>
                    /\ doCalls[Kids(p)[i]] = 1
                    /\ doSt[Kids(p)[i]] = "done"
                    /\ doWk[p][i] = "done"

\* A unit of a Parallel has failed while the goroutine of a sibling has not
\* yet invoked its Do, and a third sibling is still running.
C4_Witness ==
    \E p \in Parallels : \E a, b, c \in 1..NKids(p) :
        /\ doSt[p] = "running"
        /\ doWk[p][a] = "done" /\ DoFailed(Kids(p)[a])
        /\ doWk[p][b] = "spawned" /\ doCalls[Kids(p)[b]] = 0
        /\ doWk[p][c] = "running" /\ doSt[Kids(p)[c]] = "running"

\* C5: the error Parallel.Do returned aggregates the errors of all failed
\* siblings: nil iff none failed, the sibling's error itself when exactly
\* one failed, and a multi-error holding every sibling's error when several
\* failed.
C5_ParallelDoAggregatesAllErrors ==
    \A p \in Parallels :
        DoReturned(p) => Aggregates(doRes[p], {doRes[c] : c \in FailedDos(p)})

\* Parallel.Do has returned with two failed units and one that returned nil.
C5_Witness ==
    \E p \in Parallels :
        /\ DoReturned(p)
        /\ NKids(p) = 3
        /\ Cardinality(FailedDos(p)) = 2
        /\ doRes[p].tag = "multi"
        /\ \E c \in Range(Kids(p)) : HasDo(c) /\ doCalls[c] = 1 /\ doRes[c] = NilErr

\* C6: in Serial.Do the pending-cleanup list holds, in list order, exactly
\* the Defers of the units the loop has passed, that is of the units whose
\* own Do returned nil (or is nil), also after a later unit's Do has failed;
\* the Defer of a unit whose Do failed, or of a unit after it, is never in
\* the list.
C6_SerialQueuesDeferAfterOwnDoSucceeded ==
    \A p \in Serials :
        /\ defers[p] = WithDefer(p, doIdx[p] - 1)
        /\ \A c \in Range(defers[p]) :
            HasDefer(c) /\ (HasDo(c) => doSt[c] = "done" /\ doRes[c] = NilErr)
        /\ \A k \in 1..NKids(p) :
            DoFailed(Kids(p)[k]) =>
                \A j \in k..NKids(p) : Kids(p)[j] \notin Range(defers[p])

\* Serial.Do has returned the error of its second unit, which has a Defer;
\* the first unit's Defer is in the list, those of the second and of the
\* third are not.
C6_Witness ==
    \E p \in Serials :
        /\ NKids(p) = 3
        /\ \A j \in 1..3 : HasDefer(Kids(p)[j]) /\ HasDo(Kids(p)[j])
        /\ DoReturned(p) /\ doRes[p] = UnitErr("do", Kids(p)[2])
        /\ defers[p] = <<Kids(p)[1]>>

\* C7: Serial.Defer invokes the pending cleanups one at a time in the order
\* they were queued: a cleanup is invoked at most once and only after every
\* cleanup queued before it has returned, with an error or not; when
\* Serial.Defer has returned every pending cleanup was invoked exactly once.
C7_SerialDeferRunsAllInQueueOrder ==
    \A p \in Serials : \A j \in 1..Len(defers[p]) :
        /\ dfCalls[defers[p][j]] <= 1
        /\ dfCalls[defers[p][j]] > 0 =>
            /\ dfSt[p] # "idle"
            /\ \A i \in 1..(j - 1) : dfSt[defers[p][i]] = "done"
        /\ DeferReturned(p) =>
            dfCalls[defers[p][j]] = 1 /\ dfSt[defers[p][j]] = "done"

\* Serial.Defer has returned after three cleanups of which the second
\* failed and the first and the third returned nil.
C7_Witness ==
    \E p \in Serials :
        /\ DeferReturned(p)
        /\ Len(defers[p]) = 3
        /\ dfRes[defers[p][1]] = NilErr
        /\ dfRes[defers[p][2]] # NilErr
        /\ dfRes[defers[p][3]] = NilErr
        /\ \A j \in 1..3 : dfCalls[defers[p][j]] = 1

\* C8: the error a cleanup phase (Serial.Defer or Parallel.Defer) returned
\* aggregates the errors of all failed cleanups: nil iff every invoked
\* cleanup returned nil, the error itself when exactly one failed, and a
\* multi-error holding each of them when two or more failed.
C8_DeferAggregatesAllErrors ==
    \A p \in Serials \cup Parallels :
        DeferReturned(p) => Aggregates(dfRes[p], {dfRes[c] : c \in FailedDefers(p)})

\* A Serial.Defer has returned after two of its three cleanups failed.
C8_Witness ==
    \E p \in Serials :
        /\ DeferReturned(p)
        /\ Len(defers[p]) = 3
        /\ Cardinality(FailedDefers(p)) = 2
        /\ dfRes[p].tag = "multi"

\* C9: in Parallel.Do the pending-cleanup list holds, in list order, the
\* Defer of every unit the loop has passed that has one, whether the unit's
\* own Do is nil, is still running, returned nil or failed, and whether or
\* not a sibling failed; when Parallel.Do has returned it holds the Defer
\* of every unit that has one.
C9_ParallelQueuesEveryDefer ==
    \A p \in Parallels :
        /\ defers[p] = WithDefer(p, doIdx[p] - 1)
        /\ DoReturned(p) => defers[p] = WithDefer(p, NKids(p))

\* Parallel.Do has returned with the Defers of three units queued: of one
\* whose Do failed, of one whose Do returned nil and of one without a Do.
C9_Witness ==
    \E p \in Parallels :
        /\ DoReturned(p)
        /\ Len(defers[p]) = 3
        /\ \E a, b, c \in Range(defers[p]) :
            /\ DoFailed(a)
            /\ HasDo(b) /\ doRes[b] = NilErr
            /\ ~HasDo(c)

\* C10: Parallel.Defer starts at most one goroutine per queued cleanup and
\* a cleanup is invoked at most once, by the goroutine of its position;
\* when Parallel.Defer has returned, a goroutine was started for every
\* queued cleanup and each has invoked its cleanup exactly once and is done,
\* whatever the cleanups returned.
C10_ParallelDeferJoinsAllCleanups ==
    \A p \in Parallels :
        /\ Len(dfWk[p]) <= Len(defers[p])
        /\ \A j \in 1..Len(defers[p]) :
            /\ dfCalls[defers[p][j]] <= 1
            /\ dfCalls[defers[p][j]] > 0 =>
                j <= Len(dfWk[p]) /\ dfWk[p][j] \in {"running", "done"}
        /\ DeferReturned(p) =>
            /\ Len(dfWk[p]) = Len(defers[p])
            /\ \A j \in 1..Len(defers[p]) :
                /\ dfWk[p][j] = "done"
                /\ dfCalls[defers[p][j]] = 1
                /\ dfSt[defers[p][j]] = "done"

\* Two queued cleanups of a Parallel are running at the same time after a
\* third has failed.
C10_Witness ==
    \E p \in Parallels : \E a, b, c \in 1..Len(dfWk[p]) :
        /\ a # b
        /\ dfSt[p] = "running"
        /\ dfWk[p][a] = "running" /\ dfSt[defers[p][a]] = "running"
        /\ dfWk[p][b] = "running" /\ dfSt[defers[p][b]] = "running"
        /\ dfWk[p][c] = "done" /\ dfRes[defers[p][c]] # NilErr

----------------------------------------------------------------------------
\* Properties of the process wrapper and of the flat-list driver.

\* The wrapper has returned to the Do or Defer that called it.
WrapperReturned == w.pc = "returned"

\* cmd.Start succeeded in the running call of the wrapper.
Started == w.proc # "none"

\* C11: the wrapper never returns after a successful Start while the child
\* is alive: whenever it has returned from a call in which Start succeeded,
\* on the ec case as on the kill case of its select, the child has
\* terminated, cmd.Wait has collected it and the value the waiter goroutine
\* sent for it has been received.
C11_WrapperReturnsAfterWait ==
    (WrapperReturned /\ Started) =>
        /\ w.proc = "reaped"
        /\ w.wt = "done"
        /\ w.via \in {"ec", "kill"}

\* The wrapper has returned from killing its child, after an earlier call
\* returned from a child that exited by itself.
C11_Witness ==
    /\ WrapperReturned
    /\ w.via = "kill"
    /\ w.exit = "killed"
    /\ \E i \in 1..NSteps :
        hist[i].doSt = "returned" /\ hist[i].exit \in {"ok", "fail"}

\* Steps whose Do has returned nil / a non-nil error.
DoSucceeded(i) == hist[i].doSt = "returned" /\ hist[i].doErr = NilErr
DoHasFailed(i) == hist[i].doSt = "returned" /\ hist[i].doErr # NilErr

\* run(steps) has returned to its caller.
FlatReturned == fpc = "returned"

\* When run(steps) has returned, the Defer of every step whose Do returned
\* nil has been invoked once and has returned.
SucceededDefersRan ==
    FlatReturned =>
        \A j \in 1..NSteps :
            (DoSucceeded(j) /\ steps[j].hasDefer) =>
                hist[j].dfInv = 1 /\ hist[j].dfSt = "returned"

C13_WrapperResult ==
    (WrapperReturned /\ Started) =>
        /\ w.via = "ec" =>
            /\ w.exit \in {"ok", "fail"}
            /\ w.exit = "ok" => w.ret = NilErr
            /\ w.exit = "fail" => w.ret = WrapErr("fail", w.ph, w.step)
        /\ w.via = "kill" =>
            /\ w.wt = "done"
            /\ w.exit \in {"killed", "fail"} =>
                   w.ret = WrapErr(w.exit, w.ph, w.step)
            /\ w.exit = "ok" =>
                   /\ w.ret = w.e1
                   /\ w.e1 \in {NilErr, WrapErr("done", w.ph, w.step)}

\* The wrapper took the kill case for a child that had exited successfully
\* and had been collected, and has returned the error of the Kill call.
C13_Witness ==
    /\ WrapperReturned
    /\ w.via = "kill"
    /\ w.exit = "ok"
    /\ w.ret = WrapErr("done", w.ph, w.step)

\* C14: a call of the wrapper on a command whose Stdout or Stderr is
\* already set never gets past the two guards: the child is not started, no
\* waiter goroutine exists, both streams are as the caller set them, and
\* once it has returned it has returned the error of the guard that fired.
C14_BoundStreamsRefused ==
    (w.pc # "idle" /\ w.given # <<"nil", "nil">>) =>
        /\ w.pc \in {"check", "returned"}
        /\ w.proc = "none"
        /\ w.wt = "none"
        /\ <<w.stdout, w.stderr>> = w.given
        /\ WrapperReturned =>
            w.ret = WrapErr(IF w.given[1] # "nil" THEN "stdoutSet"
                            ELSE "stderrSet", w.ph, w.step)

\* The wrapper has returned from a call on a command whose Stderr was set.
C14_Witness ==
    /\ WrapperReturned
    /\ w.given = <<"nil", "set">>
    /\ w.ret = WrapErr("stderrSet", w.ph, w.step)

\* C15: within one run of run(steps) kill is closed at most once and stays
\* closed; once it is closed no signal is taken from sig any more, and an
\* interrupt only adds to sig (or is dropped): it changes nothing else of
\* the run, in particular it causes no second close.
C15_KillClosedAtMostOnce ==
    [][/\ closes' \in {closes, 1}
       /\ closes = 1 => (closes' = 1 /\ sig' >= sig)
       /\ interrupts' # interrupts =>
            UNCHANGED <<steps, fpc, fres, closes, worker, w, hist, dfOrder,
                        logged>>]_vars

\* The operator has interrupted twice; run(steps) has closed kill once, has
\* returned, and the second signal is still in sig.
C15_Witness ==
    /\ FlatReturned
    /\ interrupts >= 2
    /\ closes = 1
    /\ sig >= 1

\* The Defers of the steps in seq, in order; steps without one drop out.
WithStepDefer(seq) == SelectSeq(seq, LAMBDA i : steps[i].hasDefer)

Reverse(seq) == [k \in 1..Len(seq) |-> seq[Len(seq) + 1 - k]]

\* The goroutine's closure has returned: its deferred calls are all done.
Unwound == worker.pc \in {"send", "done"}

\* C16, as stated: once the closure has unwound, every step whose Do was
\* invoked, the step whose Do failed included, has had its Defer invoked.
C16_EveryInvokedStepDeferRuns ==
    Unwound =>
        \A i \in 1..NSteps :
            (hist[i].doInv > 0 /\ steps[i].hasDefer) => hist[i].dfInv = 1

\* C16, amended: a step's LoggedDefer is queued exactly when its Do has
\* returned nil; once the closure has unwound, the Defer of every step whose
\* Do returned nil has been invoked once, and the Defer of the step whose Do
\* failed, like that of the steps after it, has not been invoked.
C16_SucceededStepsDeferRuns ==
    /\ \A i \in 1..NSteps :
        /\ (\E k \in 1..Len(worker.queued) : worker.queued[k] = i)
              <=> DoSucceeded(i)
        /\ hist[i].dfInv > 0 => DoSucceeded(i)
    /\ Unwound =>
        \A i \in 1..NSteps :
            /\ (DoSucceeded(i) /\ steps[i].hasDefer) => hist[i].dfInv = 1
            /\ ~DoSucceeded(i) => hist[i].dfInv = 0

\* The closure has unwound after the Do of a step with a Defer failed: the
\* Defer of the step before it has run, its own has not.
C16_Witness ==
    /\ Unwound
    /\ \E i \in 2..NSteps :
        /\ DoHasFailed(i)
        /\ steps[i].hasDefer
        /\ hist[i].dfInv = 0
        /\ hist[i - 1].dfInv = 1

\* C17: no Defer is invoked before the forward loop has ended; from then on
\* the Defers are invoked in the reverse of the order in which their steps
\* were queued, each at most once, and when the closure has unwound every
\* queued Defer has been invoked exactly once.
C17_DefersRunOnceInReverse ==
    LET q == Reverse(WithStepDefer(worker.queued))
    IN /\ worker.pc \in {"none", "loop", "inDo"} => dfOrder = <<>>
       /\ Len(dfOrder) <= Len(q)
       /\ \A k \in 1..Len(dfOrder) : dfOrder[k] = q[k]
       /\ \A i \in 1..NSteps : hist[i].dfInv <= 1
       /\ Unwound =>
            /\ dfOrder = q
            /\ \A k \in 1..Len(q) :
                hist[q[k]].dfInv = 1 /\ hist[q[k]].dfSt = "returned"

\* The loop was ended by the failure of the third Do; the Defers of the
\* first two steps have run, the second step's first.
C17_Witness ==
    /\ Unwound
    /\ worker.ret # NilErr
    /\ dfOrder = <<2, 1>>

\* C18: the Do's are invoked in list order, each at most once and only
\* after every earlier Do returned nil; run(steps) returns the error of the
\* one Do that failed, or nil when every Do of the list returned nil.  An
\* error returned by a Defer is printed, is never what run(steps) returns,
\* and the Defers queued before it still run.
C18_ReturnsFirstDoError ==
    /\ \A i \in 1..NSteps :
        /\ hist[i].doInv <= 1
        /\ hist[i].doInv = 1 => \A j \in 1..(i - 1) : DoSucceeded(j)
        /\ (hist[i].dfSt = "returned" /\ hist[i].dfErr # NilErr) =>
              \E k \in 1..Len(logged) : logged[k] = hist[i].dfErr
    /\ FlatReturned =>
        /\ (\E i \in 1..NSteps : DoHasFailed(i)) =>
              \E i \in 1..NSteps : DoHasFailed(i) /\ fres = hist[i].doErr
        /\ (\A i \in 1..NSteps : ~DoHasFailed(i)) =>
              fres = NilErr /\ \A i \in 1..NSteps : DoSucceeded(i)
        /\ fres.ph # "defer"
        /\ \A i \in 1..NSteps :
              (DoSucceeded(i) /\ steps[i].hasDefer) =>
                  hist[i].dfSt = "returned"

\* run(steps) has returned the error of the third Do; the second step's
\* Defer failed and was printed, and the first step's Defer ran after it.
C18_Witness ==
    /\ FlatReturned
    /\ NSteps >= 3
    /\ DoHasFailed(3)
    /\ fres = hist[3].doErr
    /\ dfOrder = <<2, 1>>
    /\ hist[2].dfErr # NilErr
    /\ logged = <<hist[2].dfErr>>

\* C19, as stated: every invocation of a Do and of a Defer is handed the
\* channel an interrupt closes.
C19_EveryInvocationGetsKill ==
    \A i \in 1..NSteps :
        /\ hist[i].doInv > 0 => hist[i].doKill = Kill
        /\ hist[i].dfInv > 0 => hist[i].dfKill = Kill

\* C19, amended: every Do is handed kill, the channel an interrupt closes,
\* and every Defer is handed deferKill, which nothing closes; an interrupt
\* reaches a Do blocked in the wrapper and never a Defer: a call of the
\* wrapper made by a Defer never takes the kill case and never kills its
\* child.
C19_DoGetsKillDeferGetsDeferKill ==
    /\ \A i \in 1..NSteps :
        /\ hist[i].doInv > 0 => hist[i].doKill = Kill
        /\ hist[i].dfInv > 0 => hist[i].dfKill = DeferKill
    /\ w.ph = "do" => w.kill = Kill
    /\ w.ph = "defer" =>
        /\ w.kill = DeferKill
        /\ ~Closed(w.kill)
        /\ w.via # "kill"
        /\ w.exit # "killed"

\* kill was closed while a Do was blocked in the wrapper, whose child was
\* killed; now a Defer is blocked in the wrapper with its child running.
C19_Witness ==
    /\ closes = 1
    /\ \E i \in 1..NSteps : hist[i].cancelled /\ hist[i].exit = "killed"
    /\ w.ph = "defer"
    /\ w.pc = "select"
    /\ w.proc = "running"

----------------------------------------------------------------------------
\* Properties of the composers: the context.

\* C20: every Do and every Defer invoked during one Run, at every depth of
\* the tree, was invoked with the context Run was given: Run, Serial and
\* Parallel hand on the context they receive and no other.
C20_ContextPassedUnchanged ==
    \A n \in Nodes :
        /\ doCalls[n] > 0 => doCtx[n] = ctx
        /\ dfCalls[n] > 0 => dfCtx[n] = ctx
        /\ doCalls[n] = 0 => doCtx[n] = NoCtx
        /\ dfCalls[n] = 0 => dfCtx[n] = NoCtx

\* Run was given its second context and a Parallel of which one unit is a
\* Serial: a unit of that Serial has had its Do and its Defer invoked with
\* that context.
C20_Witness ==
    /\ ctx = "ctx2"
    /\ IsParallel(Root)
    /\ \E p \in Serials \ {Root} : \E c \in Range(Kids(p)) :
        /\ doCalls[c] = 1 /\ doCtx[c] = ctx
        /\ dfCalls[c] = 1 /\ dfCtx[c] = ctx

----------------------------------------------------------------------------
\* Properties of the composers: nil functions, nesting, the goroutines.

\* Position of unit c in the list of composite p.
PosOf(p, c) == CHOOSE i \in 1..NKids(p) : Kids(p)[i] = c

\* The composites' range loop of Do is past unit c of p.
LoopPast(p, c) == PosOf(p, c) < doIdx[p]

\* C22: a nil Do is never invoked and yields no error.  A Serial goes past
\* a unit without Do to the next unit, so the unit at which it stopped with
\* an error has a Do; a Parallel starts no goroutine for it; both queue its
\* Defer, when it has one, in the unit's iteration.  Run of a Task without
\* Do invokes its Defer, when it has one, and returns what that returns.
C22_NilDoIsSkipped ==
    /\ \A n \in Nodes : ~HasDo(n) =>
        doCalls[n] = 0 /\ doSt[n] = "idle" /\ doRes[n] = NilErr
    /\ \A p \in Serials \cup Parallels : \A c \in Range(Kids(p)) :
        (~HasDo(c) /\ LoopPast(p, c) /\ HasDefer(c)) =>
            c \in Range(defers[p])
    /\ \A p \in Serials :
        (DoReturned(p) /\ doRes[p] # NilErr) => HasDo(Kids(p)[doIdx[p]])
    /\ \A p \in Serials :
        (DoReturned(p) /\ doRes[p] = NilErr) => doIdx[p] = NKids(p) + 1
    /\ \A p \in Parallels : \A i \in 1..NKids(p) :
        ~HasDo(Kids(p)[i]) => doWk[p][i] = "none"
    /\ (~HasDo(Root) /\ pc = "done") =>
        IF HasDefer(Root)
        THEN dfCalls[Root] = 1 /\ result = dfRes[Root]
        ELSE result = NilErr

\* Run of a Serial whose first unit has no Do but a Defer: the second
\* unit's Do was invoked and the first unit's Defer has been invoked.
C22_Witness ==
    /\ IsSerial(Root)
    /\ NKids(Root) >= 2
    /\ ~HasDo(Kids(Root)[1]) /\ HasDefer(Kids(Root)[1])
    /\ doCalls[Kids(Root)[2]] = 1
    /\ dfCalls[Kids(Root)[1]] = 1

\* C23, as stated: when a Serial that is a unit of a Serial has failed after
\* queueing Defers of its own units, and the outer Serial's Defer has been
\* invoked and has returned, those Defers have been invoked.
C23_NestedSerialCleanupsRun ==
    \A p \in Serials : \A q \in Serials \cap Range(Kids(p)) :
        (DoFailed(q) /\ DeferReturned(p)) =>
            \A c \in Range(defers[q]) : dfCalls[c] = 1

\* C24: the list of a Parallel only changes by an append of one entry, made
\* by the step of the range loop of its Do, on the goroutine that invoked
\* Do; a step of a goroutine started for a unit leaves the list as it is.
C24_ParallelListAppendOnly ==
    [][\A p \in Parallels :
        /\ defers[p]' # defers[p] =>
            /\ Len(defers[p]') = Len(defers[p]) + 1
            /\ SubSeq(defers[p]', 1, Len(defers[p])) = defers[p]
            /\ doSt[p] = "running"
            /\ doIdx[p]' = doIdx[p] + 1
            /\ defers[p]'[Len(defers[p]')] = Kids(p)[doIdx[p]]
            /\ \A i \in 1..NKids(p) :
                doWk[p]'[i] # doWk[p][i] => i = doIdx[p]
        /\ (\E i \in 1..NKids(p) :
                doWk[p][i] \in {"spawned", "running"} /\ doWk[p]'[i] # doWk[p][i])
             => defers[p]' = defers[p]]_vars

\* The loop of a Parallel's Do has queued two Defers and is not over while
\* the goroutine of its first unit is running the unit's Do.
C24_Witness ==
    \E p \in Parallels :
        /\ Len(defers[p]) = 2
        /\ doIdx[p] <= NKids(p)
        /\ doWk[p][1] = "running"

\* C27: under Run no Defer is executing while a Do is executing, on any
\* goroutine and at any depth of the tree.
C27_DoPhaseBeforeDeferPhase ==
    \A n \in Nodes : dfSt[n] = "running" =>
        \A m \in Nodes : doSt[m] # "running"

\* Run of a Parallel whose unit is a composite: a Defer of a unit of the
\* inner composite is executing after the Do of the other unit of the
\* Parallel was invoked.
C27_Witness ==
    /\ IsParallel(Root)
    /\ \E q \in Range(Kids(Root)), b \in Range(Kids(Root)) :
        /\ ~IsLeaf(q) /\ IsLeaf(b)
        /\ doCalls[b] = 1
        /\ \E c \in Range(Kids(q)) : dfSt[c] = "running" /\ doCalls[c] = 1

\* C30: the goroutine a Parallel's Do starts for unit i invokes the Do of
\* unit i and of no other: that Do has been invoked once when the goroutine
\* is past its call and not at all before, and once Do has returned every
\* unit with a Do has been invoked exactly once.  Likewise the goroutine
\* Defer starts for the j-th queued cleanup invokes that cleanup.
C30_WorkersInvokeTheirOwnUnit ==
    \A p \in Parallels :
        /\ \A i \in 1..NKids(p) :
            /\ doWk[p][i] \in {"running", "done"} => doCalls[Kids(p)[i]] = 1
            /\ doWk[p][i] \in {"none", "spawned"} => doCalls[Kids(p)[i]] = 0
            /\ doWk[p][i] = "running" => doSt[Kids(p)[i]] # "idle"
        /\ DoReturned(p) =>
            \A c \in Range(Kids(p)) : doCalls[c] = IF HasDo(c) THEN 1 ELSE 0
        /\ \A j \in 1..Len(dfWk[p]) :
            /\ dfWk[p][j] \in {"running", "done"} => dfCalls[defers[p][j]] = 1
            /\ dfWk[p][j] = "spawned" => dfCalls[defers[p][j]] = 0
        /\ DeferReturned(p) =>
            \A c \in Range(defers[p]) : dfCalls[c] = 1

\* The goroutines of the first and of the last of three units are running
\* their unit's Do; the one of the second unit has not called it yet.
C30_Witness ==
    \E p \in Parallels :
        /\ NKids(p) = 3
        /\ doWk[p][1] = "running" /\ doSt[Kids(p)[1]] = "running"
        /\ doWk[p][2] = "spawned" /\ doCalls[Kids(p)[2]] = 0
        /\ doWk[p][3] = "running" /\ doSt[Kids(p)[3]] = "running"

----------------------------------------------------------------------------
\* More properties of the process wrapper and of the flat-list driver.

C28_ReturnsAfterUnwind ==
    FlatReturned =>
        /\ worker.pc = "done"
        /\ worker.stack = <<>>
        /\ w.pc = "idle"
        /\ \A i \in 1..NSteps :
            /\ hist[i].doSt # "running"
            /\ hist[i].dfSt # "running"
        /\ \/ \E i \in 1..NSteps : DoHasFailed(i)
           \/ \A i \in 1..NSteps : DoSucceeded(i)
        /\ \A k \in 1..Len(worker.queued) :
            steps[worker.queued[k]].hasDefer =>
                hist[worker.queued[k]].dfSt = "returned"

\* run(steps) has returned after an interrupt that came while the second
\* of two Defers was still to run.
C28_Witness ==
    /\ FlatReturned
    /\ closes = 1
    /\ interrupts = 1
    /\ Len(dfOrder) = 2
    /\ \A i \in 1..NSteps : ~hist[i].cancelled /\ hist[i].exit # "killed"

\* C29: run(steps) returns a non-nil error exactly when the Do of a step
\* returned one, and then that error, whether or not the operator
\* interrupted the run.
C29_ErrorIffADoFailed ==
    FlatReturned =>
        /\ fres # NilErr <=> \E i \in 1..NSteps : DoHasFailed(i)
        /\ fres # NilErr =>
            \E i \in 1..NSteps : DoHasFailed(i) /\ fres = hist[i].doErr

\* run(steps) has returned nil after an interrupt that found a Do blocked
\* in the wrapper, whose child exited successfully by itself.
C29_Witness ==
    /\ FlatReturned
    /\ closes = 1
    /\ fres = NilErr
    /\ \E i \in 1..NSteps : hist[i].cancelled /\ hist[i].exit = "ok"

----------------------------------------------------------------------------
\* Properties of a second run and of a raised signal.

\* C21, as stated: in the second Run of the same composite no Defer is
\* invoked more than once, and when the composite's Defer has returned the
\* Defer of every unit the second run queued has been invoked exactly once.
C21_SecondRunInvokesEachDeferOnce ==
    runs = 2 =>
        /\ \A n \in Nodes : dfCalls[n] <= 1
        /\ DeferReturned(Root) =>
            \A c \in Range(Kids(Root)) :
                (HasDefer(c) /\ LoopPast(Root, c)) => dfCalls[c] = 1

\* The next unit of the running Do of Serial p has a Do that is not nil and
\* has not been invoked.
SerialAtUnit(p) ==
    /\ doSt[p] = "running"
    /\ doIdx[p] <= NKids(p)
    /\ HasDo(Kids(p)[doIdx[p]])
    /\ doSt[Kids(p)[doIdx[p]]] = "idle"

\* C25: raising the signal takes no step away from a composer or driver.
\* With the context cancelled, a Serial whose loop is at a unit can invoke
\* that unit's Do and a Parallel whose loop is at a unit can start it; with
\* kill closed, the loop of run(steps) can invoke the Do of the step it is
\* at.  A Do that was not invoked when a Serial's Do or the loop of
\* run(steps) has ended comes after a Do that returned an error, and when a
\* Parallel's Do has returned every unit's Do was invoked.
C25_SignalNotInspected ==
    /\ \A p \in Serials :
        /\ (ctxDone /\ SerialAtUnit(p)) => ENABLED SerialDoCall(p)
        /\ DoReturned(p) =>
            \A i \in 1..NKids(p) :
                (HasDo(Kids(p)[i]) /\ doCalls[Kids(p)[i]] = 0) =>
                    \E j \in 1..(i - 1) : DoFailed(Kids(p)[j])
    /\ \A p \in Parallels :
        /\ (ctxDone /\ doSt[p] = "running" /\ doIdx[p] <= NKids(p)) =>
              ENABLED ParallelDoSpawn(p)
        /\ \A i \in 1..NKids(p) :
              (ctxDone /\ doWk[p][i] = "spawned") => ENABLED WorkerDoCall(p, i)
        /\ DoReturned(p) =>
            \A c \in Range(Kids(p)) : HasDo(c) => doCalls[c] = 1
    /\ (Closed(Kill) /\ worker.pc = "loop" /\ worker.idx <= NSteps) =>
          ENABLED WorkerCallDo
    /\ Unwound =>
        \A i \in 1..NSteps :
            hist[i].doInv = 0 => \E j \in 1..(i - 1) : DoHasFailed(j)

\* kill was closed while the first step's Do was blocked in the wrapper;
\* that Do returned nil and now the second step's Do has been invoked.
C25_Witness ==
    /\ Closed(Kill)
    /\ NSteps >= 2
    /\ hist[1].cancelled
    /\ DoSucceeded(1)
    /\ hist[2].doInv = 1
    /\ hist[2].doSt = "running"

----------------------------------------------------------------------------
\* Properties of termination: the wrapper and the flat-list driver.

\* The wrapper is blocked in a receive from ec: in its select or after Kill.
WrapperReceiving == w.pc \in {"select", "recv"}

\* A step in which the running call of the wrapper takes a value from ec.
WrapperReceives ==
    /\ WrapperReceiving
    /\ w'.pc = "returned"

\* A step in which the waiter goroutine's send on ec completes.
WaiterSendTaken ==
    /\ w.wt = "sending"
    /\ w'.wt = "done"

\* C31: in a call of the wrapper in which Start succeeded, the waiter
\* goroutine's send on ec and the wrapper's receive from it are one and the
\* same step, which happens at most once per call: the waiter blocks in its
\* send only after Wait, is over only through that step, and is never over
\* while the wrapper still waits for it; the wrapper returns only through
\* that step, so it leaves no waiter behind.  Under fair scheduling, once
\* the child has exited the waiter ends and the wrapper returns, on the kill
\* case as on the ec case.
C31_OneSendOneReceive ==
    /\ [](w.wt = "done" => WrapperReturned)
    /\ [](WrapperReturned /\ Started => w.wt = "done")
    /\ [][/\ WaiterSendTaken <=> WrapperReceives
          /\ w'.wt = "sending" /\ w.wt # "sending" => w.wt = "waiting"
          /\ w.wt = "done" => w'.wt \in {"done", "none"}
          /\ w.wt = "sending" => w'.wt \in {"sending", "done"}]_vars
    /\ (w.proc = "exited" ~> (WrapperReturned /\ w.wt = "done"))

\* Reached: a Defer's child failed by itself and the wrapper returned on
\* the ec case with its waiter over, in a run in which an earlier call
\* returned on the kill case.
C31_Witness ==
    /\ WrapperReturned
    /\ Started
    /\ w.wt = "done"
    /\ w.ph = "defer"
    /\ w.via = "ec"
    /\ w.exit = "fail"
    /\ closes = 1
    /\ \E i \in 1..NSteps : hist[i].cancelled /\ hist[i].exit = "killed"

\* A step in which main takes a value from ec, in the ec case of its select
\* or in `return <-ec` after an interrupt.
MainReceives ==
    /\ fpc \in {"select", "recv"}
    /\ fpc' = "returned"

\* A step in which the goroutine's send on ec completes.
WorkerSendTaken ==
    /\ worker.pc = "send"
    /\ worker'.pc = "done"

\* C32: in a run of run(steps) the goroutine's send on ec and main's
\* receive from it are one and the same step, which happens at most once:
\* the goroutine blocks in its send only when its deferred calls have run,
\* is over only through that step and exactly when run(steps) has returned.
\* Until then some goroutine or child process can always take a step, and
\* under fair scheduling, with every child process coming to an end,
\* run(steps) returns, whether or not an interrupt has brought main to its
\* receive after close(kill).
C32_DriverTerminates ==
    /\ [](worker.pc = "done" <=> FlatReturned)
    /\ [](~FlatReturned => ENABLED ProgramStep)
    /\ [][/\ WorkerSendTaken <=> MainReceives
          /\ worker'.pc = "send" /\ worker.pc # "send" => worker.pc = "unwind"
          /\ worker.pc = "send" => worker'.pc \in {"send", "done"}
          /\ worker.pc = "done" => worker'.pc = "done"
          /\ FlatReturned => fpc' = "returned"]_vars
    /\ <>FlatReturned

\* Reached: run(steps) has returned the error of a Do that was cancelled by
\* an interrupt, after the Defer of the step before it has run.
C32_Witness ==
    /\ FlatReturned
    /\ worker.pc = "done"
    /\ closes = 1
    /\ fres # NilErr
    /\ NSteps >= 2
    /\ hist[2].cancelled
    /\ fres = hist[2].doErr
    /\ hist[1].dfSt = "returned"
    /\ hist[1].dfErr # NilErr

----------------------------------------------------------------------------
\* Properties of package system: VirtualFS and the wait for the root device.

\* The order in which the running call is to go through the entries.
VfsExpected ==
    IF vfs.op = "mount" THEN <<"dev", "dev/pts", "sys", "proc">>
    ELSE <<"proc", "sys", "dev/pts", "dev">>

\* The entries for which the running call has run its command.
VfsTried == {vfs.log[k].name : k \in 1..Len(vfs.log)}

VfsReturned == vfs.pc = "returned"

\* C33: the commands a call of Mount has run are, in order, those for dev,
\* dev/pts, sys, proc, and those of a call of Umount those for proc, sys,
\* dev/pts, dev, or a beginning of that list; only the last command run can
\* have failed, its error ends the call and is what the call returns; a
\* call that returns nil has run all four.  An entry whose command has not
\* been run is mounted as often as it was when the call began.
C33_VirtualFSOrder ==
    vfs.op # "" =>
        /\ Len(vfs.log) <= Len(VfsExpected)
        /\ \A k \in 1..Len(vfs.log) : vfs.log[k].name = VfsExpected[k]
        /\ \A k \in 1..(Len(vfs.log) - 1) : vfs.log[k].err = NilErr
        /\ \A k \in 1..Len(vfs.log) :
            vfs.log[k].err # NilErr => VfsReturned /\ vfs.ret = vfs.log[k].err
        /\ VfsReturned /\ vfs.ret = NilErr => Len(vfs.log) = 4
        /\ VfsReturned /\ vfs.ret # NilErr =>
            vfs.log # <<>> /\ vfs.log[Len(vfs.log)].err = vfs.ret
        /\ \A k \in 1..Len(virtualFSs) :
            virtualFSs[k] \notin VfsTried => vfs.table[k] = vfs.before[k]

\* Reached: after a Mount that mounted all four, Umount unmounted proc,
\* failed on sys and returned, with dev/pts and dev still mounted.
C33_Witness ==
    /\ VfsReturned
    /\ vfs.op = "umount"
    /\ vfs.before = [k \in 1..4 |-> 1]
    /\ Len(vfs.log) = 2
    /\ vfs.ret # NilErr
    /\ vfs.table = <<1, 1, 1, 0>>

GptReturned == gpt.pc = "returned"

\* C34: the wait for the root device ends.  Polls are made one after the
\* other, each after a poll that found the device missing; the counter is
\* 1 ms at the first poll and 50 ms more at each further one; there are
\* never more than 41.  A poll that finds the device ends the call with
\* nil, one that fails otherwise ends it with that error, and when the
\* device is still missing at the 41st poll (counter 2001 ms, past the
\* limit of 2 s) the call returns "failed to find".  Once returned, nothing
\* more happens; and GptSetup does return.
C34_DeviceWaitTerminates ==
    /\ [](gpt.polls <= 41)
    /\ [](gpt.pc = "stat" => gpt.current = 1 + 50 * gpt.polls)
    /\ [](gpt.pc # "stat" /\ gpt.polls >= 1 =>
            gpt.current = 1 + 50 * (gpt.polls - 1))
    /\ [](GptReturned =>
            /\ gpt.last = "none" =>
                 gpt.polls = 0 /\ gpt.ret = WrapErr("fail", "sgdisk", 0)
            /\ gpt.last = "found" => gpt.ret = NilErr
            /\ gpt.last = "other" => gpt.ret = WrapErr("stat", "gpt", 0)
            /\ gpt.last = "notexist" =>
                 /\ gpt.ret = WrapErr("failed to find", "gpt", 0)
                 /\ gpt.polls = 41)
    /\ [](gpt.last \in {"found", "other"} => GptReturned)
    /\ [][/\ gpt'.polls # gpt.polls =>
               /\ gpt'.polls = gpt.polls + 1
               /\ gpt.last \in {"none", "notexist"}
          /\ GptReturned => gpt' = gpt]_vars
    /\ <>GptReturned

\* Reached: the device never appeared and the call gave up after its 41st
\* poll.
C34_Witness ==
    /\ GptReturned
    /\ gpt.polls = 41
    /\ gpt.current = 2001
    /\ gpt.last = "notexist"
    /\ gpt.ret = WrapErr("failed to find", "gpt", 0)

====
